---- MODULE Spec2Model ----
(***************************************************************************)
(* State-machine model of the twitch bot in src/twitchbot: the live-status *)
(* monitor (bot.py monitor_live_status) with the cleanup action            *)
(* (twitch_api.py delete_latest_vod / get_current_category), the ad loop,  *)
(* the now-playing poller, the chat-message submission collector, the two  *)
(* countdown timers and the overlay broadcast hub (overlay.py).            *)
(*                                                                         *)
(* Scheduling is asyncio's: one task runs at a time and gives up control   *)
(* only at an await.  Every action below is one such step: it resumes one  *)
(* task from the await it is suspended in, with the outcome of the awaited *)
(* call chosen by \E, and runs it up to its next await.  Delays are not    *)
(* measured; a sleep is an await like any other.                           *)
(***************************************************************************)
EXTENDS Integers, Sequences, FiniteSets, TLC

\* ------------------------------------------------------------------ bounds
\* live edges the monitor may detect in one run
MaxSessions == 2
\* timer tasks of one kind (!lt or !ltlockin) started in one run
MaxTimers == 2
\* command handlers suspended in an await at the same time
MaxHandlers == 1
\* live edges in the runs that follow single ad loops and pollers
MaxLoopSessions == 1

\* --------------------------------------------------------- program values
NoneVal == "None"
FitnessCategory == "Fitness & Health"
OtherCategory == "Just Chatting"
CategoryAttempts == 5
\* the literal "hairyrug_" of bot.py line 247, as a sequence of characters
BotNick == <<"h", "a", "i", "r", "y", "r", "u", "g", "_">>

VARIABLES
    mon,                 \* monitor_live_status: [pc, attempt, category]
    is_live,             \* Bot.is_live
    first_check,         \* local first_check of monitor_live_status
    ad_task,             \* Bot.ad_task: 0 (None) or index into adTasks
    spotify_task,        \* Bot.spotify_task: 0 (None) or index into spTasks
    adTasks,             \* every _run_ad_loop task ever created
    spTasks,             \* every monitor_spotify task ever created
    spotify,             \* Bot.spotify is set (init_spotify succeeded)
    last_track,          \* Bot._last_spotify_track_id
    recap_configured,    \* RECAP_SECRET and DISCORD_BOT_URL are both set
    chatter_submissions, \* Bot.chatter_submissions
    seen_submissions,    \* Bot._seen_submissions
    stream_problems,     \* Bot.stream_problems
    stream_start_ts,     \* Bot.stream_start_ts: 0 (None), or the time of the
                         \* live edge, counted in live edges
    current_problem,     \* Bot.current_problem
    hist,                \* observations of the monitor's calls
    dlv,                 \* the delete_latest_vod call of the current iteration
    scen,                \* position in a scripted probe sequence
    overlay_clients,     \* overlay.overlay_clients
    ws,                  \* per websocket: state of its overlay_handler
    lt_task,             \* Bot.lt_task: 0 (None) or index into ltTasks
    ltlock_task,         \* Bot.ltlock_task: 0 (None) or index into lockTasks
    ltTasks,             \* every _run_lt_timer task ever created
    lockTasks,           \* every _run_ltlock_timer task ever created
    handlers,            \* command handlers (leetcode_timer/_lockin) in flight
    issued               \* observations of the chat: a duplicate match was
                         \* dropped, a timer was cleared, what fired since

monVars == <<mon, is_live, first_check, ad_task, spotify_task>>
taskVars == <<adTasks, spTasks, last_track>>
recapVars == <<chatter_submissions, seen_submissions, stream_problems,
               stream_start_ts>>
envVars == <<spotify, recap_configured>>
hubVars == <<overlay_clients, ws>>
timerVars == <<lt_task, ltlock_task, ltTasks, lockTasks, handlers, issued>>
\* what the monitor and the tasks it starts never touch
otherVars == <<envVars, current_problem, timerVars>>

\* ------------------------------------------------------- helix responses
\* A response of GET helix/streams: status 0 stands for a transport error
\* (session.get raises), json = FALSE for a body resp.json() cannot parse.
\* data is the "data" list of the body: empty, or one stream entry.
GameNames == {NoneVal, "", FitnessCategory, OtherCategory}

StreamResponses ==
    {[status |-> 0, json |-> FALSE, data |-> <<>>]}
    \cup {[status |-> s, json |-> FALSE, data |-> <<>>] : s \in {200, 500}}
    \cup {[status |-> s, json |-> TRUE, data |-> <<>>] : s \in {200, 500}}
    \cup {[status |-> 200, json |-> TRUE, data |-> <<[game_name |-> g]>>] :
             g \in GameNames}

Raise == "raise"

\* twitch_api.is_stream_live raises: session.get fails, or a 200 answer
\* carries a body resp.json() cannot parse
is_stream_live_raises(resp) ==
    resp.status = 0 \/ (resp.status = 200 /\ ~resp.json)

\* twitch_api.is_stream_live, the value returned when it does not raise
is_stream_live(resp) ==
    IF resp.status # 200 THEN FALSE ELSE Len(resp.data) > 0

\* the answer names a stream: the test of lines 38 and 56 on a parsed body
StreamEntry(resp) == resp.json /\ Len(resp.data) > 0

\* twitch_api.log_stream_metadata: "ok", or Raise when the call raises
log_stream_metadata(resp) ==
    IF resp.status = 0 \/ ~resp.json THEN Raise ELSE "ok"

TruthyNotNone(s) == s # NoneVal
\* line 63 "if game_name": None and the empty string are not a category
Truthy(s) == s # NoneVal /\ s # ""

\* one attempt of twitch_api.get_current_category (lines 53-64): the value
\* returned by that attempt, "retry" when the loop goes on, or Raise
CategoryAttempt(resp) ==
    IF resp.status = 0 \/ ~resp.json THEN Raise
    ELSE IF Len(resp.data) > 0 /\ Truthy(resp.data[1].game_name)
         THEN resp.data[1].game_name
         ELSE "retry"

\* the test of delete_latest_vod line 76
CategoryMismatchAny(category) == category = NoneVal
CategoryMismatch(category) == category # FitnessCategory

\* A response of GET helix/videos?first=1&type=archive
VodListResponses ==
    {[status |-> 0, json |-> FALSE, data |-> <<>>]}
    \cup {[status |-> s, json |-> j, data |-> <<>>] :
             s \in {200, 500}, j \in BOOLEAN}
    \cup {[status |-> 200, json |-> TRUE, data |-> <<[id |-> i]>>] :
             i \in {NoneVal, "v1"}}

\* delete_latest_vod lines 90-106: the id to delete, "return", or Raise
\* (an entry without "id" makes data["data"][0]["id"] raise KeyError)
VodListResult(resp) ==
    IF resp.status = 0 THEN Raise
    ELSE IF resp.status # 200 THEN "return"
    ELSE IF ~resp.json THEN Raise
    ELSE IF Len(resp.data) = 0 THEN "return"
    ELSE IF resp.data[1].id = NoneVal THEN Raise
    ELSE resp.data[1].id

\* ------------------------------------------------------------------ tasks
Pending(t) == t.pc # "done"

\* a task counts as running while it has not finished and its cancellation
\* has not been requested (a cancelled task only unwinds at its next step)
Running(t) == Pending(t) /\ ~t.cancel

\* asyncio Task.cancel(): a finished task is left alone, a pending one gets
\* CancelledError thrown into it at its next step
CancelFinished(tasks, h) ==
    IF h = 0 THEN tasks ELSE [tasks EXCEPT ![h].cancel = TRUE]
Cancel(tasks, h) ==
    IF h = 0 \/ ~Pending(tasks[h]) THEN tasks
    ELSE [tasks EXCEPT ![h].cancel = TRUE]

\* cycle: the events of the task's current ad cycle, in the order they were
\* begun; refused: the task ended on a recurring commercial request that
\* failed
NewAdTask(immediate) ==
    [pc |-> "start", immediate |-> immediate, cancel |-> FALSE,
     firstIter |-> hist.iter = 1, poll |-> scen.polls,
     cycle |-> <<>>, refused |-> FALSE]

\* ------------------------------------------------------------ overlay hub
\* the websocket connections that may be opened in one run; a connection
\* object is never reused after it closed
Sockets == {"w1", "w2"}

\* the dict handed to overlay_broadcast
Msg(command, duration, label, playing) ==
    [command |-> command, duration |-> duration, label |-> label,
     is_playing |-> playing]
NoMsg == Msg("none", 0, "", FALSE)
StopMsgAsStart == Msg("start", 0, "", FALSE)
StopMsg == Msg("stop", 0, "", FALSE)
NowPlaying(playing) == Msg("nowplaying", 0, "", playing)

\* no overlay_broadcast in progress
NoBc == [msg |-> NoMsg, snap |-> {}, used |-> 0, visited |-> {},
         cur |-> NoneVal, dead |-> {}]

BcResult(kind, bc, clients) == [kind |-> kind, bc |-> bc, clients |-> clients]

\* overlay_broadcast lines 41-51: with no client it returns without an
\* await; otherwise the set iterator is created (it remembers the size of
\* the set) and the first send is awaited
BcStartRaises(msg) ==
    IF overlay_clients = {} THEN {BcResult(Raise, NoBc, overlay_clients)}
    ELSE {BcResult("suspend",
                   [msg |-> msg, snap |-> overlay_clients,
                    used |-> Cardinality(overlay_clients), visited |-> {},
                    cur |-> c, dead |-> {}],
                   overlay_clients) : c \in overlay_clients}
BcStart(msg) ==
    IF overlay_clients = {} THEN {BcResult("return", NoBc, overlay_clients)}
    ELSE {BcResult("suspend",
                   [msg |-> msg, snap |-> overlay_clients,
                    used |-> Cardinality(overlay_clients), visited |-> {},
                    cur |-> c, dead |-> {}],
                   overlay_clients) : c \in overlay_clients}

\* overlay_broadcast lines 49-63, resumed from ws.send: a failed send puts
\* the client on the dead list; the iterator's next() raises RuntimeError
\* when the set's size differs from the size it remembered; a client of the
\* set as it was at the start is visited if it is still there, a client
\* added since may or may not be (its slot may lie behind the iterator);
\* after the loop the dead clients are discarded
BcResume(bc, sendOk) ==
    LET dead == IF sendOk THEN bc.dead ELSE bc.dead \cup {bc.cur}
        visited == bc.visited \cup {bc.cur}
        cand == overlay_clients \ visited
    IN  IF Cardinality(overlay_clients) # bc.used
        THEN {BcResult(Raise, NoBc, overlay_clients)}
        ELSE {BcResult("suspend",
                       [bc EXCEPT !.visited = visited, !.dead = dead,
                                  !.cur = c],
                       overlay_clients) : c \in cand}
             \cup (IF cand \cap bc.snap = {}
                   THEN {BcResult("return", NoBc, overlay_clients \ dead)}
                   ELSE {})

\* missed: the task ended leaving a client without the final message;
\* erred: a poll of the task ended in an exception that was caught;
\* steady: the broadcast in progress reports the state the last poll saw
NewSpTask == [pc |-> "start", cancel |-> FALSE, bc |-> NoBc, missed |-> FALSE,
              erred |-> FALSE, steady |-> FALSE]

\* _send_recap lines 211-216: the payload of the recap POST, without
\* stream_end; "stream_start_ts or stream_end" is stream_start_ts when it is
\* set
RecapPayload ==
    [stream_start |-> stream_start_ts,
     stream_problems |-> stream_problems,
     chatter_submissions |-> chatter_submissions]
\* no recap POST was made in the current iteration of the monitor
NoPayload ==
    [stream_start |-> 0, stream_problems |-> <<>>,
     chatter_submissions |-> <<>>]

\* ---------------------------------------------------------------- initial
NoResponse == [status |-> -1, json |-> FALSE, data |-> <<>>]
DlvIdle == [status |-> "idle", category |-> NoneVal, gets |-> 0,
            list |-> NoResponse, deletes |-> 0, seen |-> FALSE]

Init ==
    /\ mon = [pc |-> "start", attempt |-> 0]
    /\ is_live = FALSE
    /\ first_check = TRUE
    /\ ad_task = 0
    /\ spotify_task = 0
    /\ adTasks = <<>>
    /\ spTasks = <<>>
    /\ spotify = TRUE
    /\ last_track = NoneVal
    /\ recap_configured = FALSE
    /\ chatter_submissions = <<>>
    /\ seen_submissions = {}
    /\ stream_problems = <<>>
    /\ stream_start_ts = 0
    /\ current_problem = NoneVal
    /\ hist = [iter |-> 0, sessions |-> 0, recapCalls |-> 0, recapPosts |-> 0,
               adCancels |-> 0, spCancels |-> 0, offlineDone |-> FALSE,
               payload |-> NoPayload]
    /\ dlv = DlvIdle
    /\ scen = [polls |-> 0, allTwenty |-> TRUE]
    /\ overlay_clients = {}
    /\ ws = [c \in Sockets |-> "new"]
    /\ lt_task = 0
    /\ ltlock_task = 0
    /\ ltTasks = <<>>
    /\ lockTasks = <<>>
    /\ handlers = <<>>
    /\ issued = [skipped |-> FALSE, cleared |-> FALSE, stopsSince |-> 0,
                 ltCleared |-> FALSE, ltFired |-> FALSE, ignored |-> FALSE,
                 rejected |-> FALSE, raced |-> FALSE, shown |-> "none"]

\* ---------------------------------------------------------------- monitor
MonIdle == mon.pc \in {"sleep20", "sleep10"}

\* an exception that is not caught ends the monitor task
MonCrash == mon' = [pc |-> "crashed", attempt |-> 0]

\* lines 139-141: any exception ends the iteration in the 10-unit back-off;
\* first_check = False (line 133) is skipped
MonBackoff == mon' = [pc |-> "sleep10", attempt |-> 0]

\* lines 133-134
MonIterationEnd ==
    /\ first_check' = FALSE
    /\ mon' = [pc |-> "sleep20", attempt |-> 0]

\* lines 125-134, reached when delete_latest_vod returns
OfflineTailAdOnly ==
    /\ adTasks' = Cancel(adTasks, ad_task)
    /\ ad_task' = 0
    /\ UNCHANGED <<spTasks, spotify_task>>
    /\ hist' = [hist EXCEPT
                  !.adCancels = @ + (IF ad_task # 0 THEN 1 ELSE 0),
                  !.offlineDone = TRUE]
    /\ MonIterationEnd
OfflineTail ==
    /\ adTasks' = Cancel(adTasks, ad_task)
    /\ spTasks' = Cancel(spTasks, spotify_task)
    /\ ad_task' = 0
    /\ spotify_task' = 0
    /\ hist' = [hist EXCEPT
                  !.adCancels = @ + (IF ad_task # 0 THEN 1 ELSE 0),
                  !.spCancels = @ + (IF spotify_task # 0 THEN 1 ELSE 0),
                  !.offlineDone = TRUE]
    /\ MonIterationEnd

\* delete_latest_vod line 73: get_current_category sends its first request
BeginDeleteLatestVod ==
    /\ mon' = [pc |-> "category", attempt |-> 0]
    /\ dlv' = [DlvIdle EXCEPT !.status = "running", !.gets = 1]

\* lines 88-92: the recap tracking is reset at the live edge; the edge about
\* to be counted gives the time
ResetRecapKeepProblems ==
    /\ stream_start_ts' = hist.sessions + 1
    /\ chatter_submissions' = <<>>
    /\ seen_submissions' = {}
    /\ UNCHANGED stream_problems
ResetRecap ==
    /\ stream_start_ts' = hist.sessions + 1
    /\ chatter_submissions' = <<>>
    /\ seen_submissions' = {}
    /\ stream_problems' = <<>>

\* the edge tests of lines 87 and 116
LiveEdge(live) == live /\ ~is_live
OfflineEdgeUntested(live) == ~live
OfflineEdge(live) == ~live /\ is_live

\* lines 84-134 up to the first await after the probe answered.  The sleep
\* that precedes the probe and the probe request are one step: the monitor
\* changes nothing between waking up and receiving the answer.
MonitorProbe(resp) ==
    /\ mon.pc \in {"start", "sleep20", "sleep10"}
    /\ LET live == is_stream_live(resp)
           h == [hist EXCEPT !.iter = IF @ < 2 THEN @ + 1 ELSE @,
                             !.offlineDone = FALSE,
                             !.payload = NoPayload] IN
       IF is_stream_live_raises(resp) THEN
           /\ MonBackoff
           /\ hist' = h
           /\ dlv' = DlvIdle
           /\ UNCHANGED <<is_live, first_check, ad_task, spotify_task,
                          taskVars, recapVars>>
       ELSE IF LiveEdge(live) THEN
           /\ hist.sessions < MaxSessions
           /\ ResetRecap
           /\ is_live' = TRUE
           /\ mon' = [pc |-> "metadata", attempt |-> 0]
           /\ hist' = [h EXCEPT !.sessions = @ + 1]
           /\ dlv' = DlvIdle
           /\ UNCHANGED <<first_check, ad_task, spotify_task, taskVars>>
       ELSE IF OfflineEdge(live) THEN
           /\ is_live' = FALSE
           /\ IF recap_configured
              THEN /\ mon' = [pc |-> "recap", attempt |-> 0]
                   /\ hist' = [h EXCEPT !.recapCalls = @ + 1,
                                        !.recapPosts = @ + 1,
                                        !.payload = RecapPayload]
                   /\ dlv' = DlvIdle
              ELSE /\ BeginDeleteLatestVod
                   /\ hist' = [h EXCEPT !.recapCalls = @ + 1]
           /\ UNCHANGED <<first_check, ad_task, spotify_task, taskVars,
                          recapVars>>
       ELSE
           /\ MonIterationEnd
           /\ hist' = h
           /\ dlv' = DlvIdle
           /\ UNCHANGED <<is_live, ad_task, spotify_task, taskVars,
                          recapVars>>
    /\ UNCHANGED <<otherVars, hubVars>>

\* lines 100-114 and 133-134: log_stream_metadata answered
MonitorMetadata(resp) ==
    /\ mon.pc = "metadata"
    /\ IF log_stream_metadata(resp) = Raise THEN
           /\ MonBackoff
           /\ UNCHANGED <<first_check, ad_task, spotify_task, taskVars>>
       ELSE
           /\ adTasks' = Append(adTasks, NewAdTask(~first_check))
           /\ ad_task' = Len(adTasks) + 1
           /\ spTasks' = Append(spTasks, NewSpTask)
           /\ spotify_task' = Len(spTasks) + 1
           /\ MonIterationEnd
           /\ UNCHANGED last_track
    /\ UNCHANGED <<is_live, recapVars, otherVars, hist, dlv, scen, hubVars>>

\* a failure of the POST that is not caught in _send_recap
MonitorRecapRaises(ok) ==
    /\ mon.pc = "recap"
    /\ IF ok THEN BeginDeleteLatestVod ELSE MonBackoff /\ UNCHANGED dlv
    /\ UNCHANGED <<is_live, first_check, ad_task, spotify_task, taskVars,
                   recapVars, otherVars, hist, scen, hubVars>>

\* _send_recap lines 218-231: the POST answered (ok) or failed; both are
\* only logged (lines 225-231), then delete_latest_vod is called (line 123)
MonitorRecap(ok) ==
    /\ mon.pc = "recap"
    /\ BeginDeleteLatestVod
    /\ UNCHANGED <<is_live, first_check, ad_task, spotify_task, taskVars,
                   recapVars, otherVars, hist, scen, hubVars>>

\* get_current_category lines 52-69 and delete_latest_vod lines 73-90: one
\* attempt answered.  The 2-unit sleep after a failed attempt and the next
\* request are one step.
MonitorCategory(resp) ==
    /\ mon.pc = "category"
    /\ LET r == CategoryAttempt(resp)
           category == IF r = "retry" THEN NoneVal ELSE r IN
       IF r = Raise THEN
           /\ MonBackoff
           /\ dlv' = [dlv EXCEPT !.status = "raised"]
           /\ UNCHANGED <<first_check, ad_task, spotify_task, taskVars, hist>>
       ELSE IF r = "retry" /\ mon.attempt + 1 < CategoryAttempts THEN
           /\ mon' = [mon EXCEPT !.attempt = @ + 1]
           /\ dlv' = [dlv EXCEPT !.gets = @ + 1,
                                 !.seen = @ \/ StreamEntry(resp)]
           /\ UNCHANGED <<first_check, ad_task, spotify_task, taskVars, hist>>
       ELSE IF CategoryMismatch(category) THEN
           /\ dlv' = [dlv EXCEPT !.status = "returned",
                                 !.category = category,
                                 !.seen = @ \/ StreamEntry(resp)]
           /\ OfflineTail
           /\ UNCHANGED last_track
       ELSE
           /\ mon' = [pc |-> "vodlist", attempt |-> 0]
           /\ dlv' = [dlv EXCEPT !.category = category,
                                 !.seen = @ \/ StreamEntry(resp)]
           /\ UNCHANGED <<first_check, ad_task, spotify_task, taskVars, hist>>
    /\ UNCHANGED <<is_live, recapVars, otherVars, scen, hubVars>>

\* delete_latest_vod lines 90-109: the VOD list answered
MonitorVodList(resp) ==
    /\ mon.pc = "vodlist"
    /\ LET r == VodListResult(resp) IN
       IF r = Raise THEN
           /\ MonBackoff
           /\ dlv' = [dlv EXCEPT !.status = "raised", !.list = resp]
           /\ UNCHANGED <<first_check, ad_task, spotify_task, taskVars, hist>>
       ELSE IF r = "return" THEN
           /\ dlv' = [dlv EXCEPT !.status = "returned", !.list = resp]
           /\ OfflineTail
           /\ UNCHANGED last_track
       ELSE
           /\ mon' = [pc |-> "voddelete", attempt |-> 0]
           /\ dlv' = [dlv EXCEPT !.list = resp, !.deletes = @ + 1]
           /\ UNCHANGED <<first_check, ad_task, spotify_task, taskVars, hist>>
    /\ UNCHANGED <<is_live, recapVars, otherVars, scen, hubVars>>

\* delete_latest_vod lines 109-116: the DELETE answered (any status is only
\* logged) or failed in transport (ok = FALSE: session.delete raises)
MonitorVodDelete(ok) ==
    /\ mon.pc = "voddelete"
    /\ IF ok THEN
           /\ dlv' = [dlv EXCEPT !.status = "returned"]
           /\ OfflineTail
           /\ UNCHANGED last_track
       ELSE
           /\ MonBackoff
           /\ dlv' = [dlv EXCEPT !.status = "raised"]
           /\ UNCHANGED <<first_check, ad_task, spotify_task, taskVars, hist>>
    /\ UNCHANGED <<is_live, recapVars, otherVars, scen, hubVars>>

MonitorStep ==
    \/ \E resp \in StreamResponses : MonitorMetadata(resp)
    \/ \E ok \in BOOLEAN : MonitorRecap(ok)
    \/ \E resp \in StreamResponses : MonitorCategory(resp)
    \/ \E resp \in VodListResponses : MonitorVodList(resp)
    \/ \E ok \in BOOLEAN : MonitorVodDelete(ok)

\* the probe answers anything
FreeProbe ==
    \E resp \in StreamResponses : MonitorProbe(resp) /\ UNCHANGED scen

vars == <<mon, is_live, first_check, ad_task, spotify_task, adTasks, spTasks,
          spotify, last_track, recap_configured, chatter_submissions,
          seen_submissions, stream_problems, stream_start_ts,
          current_problem, hist, dlv, scen, overlay_clients, ws, lt_task,
          ltlock_task, ltTasks, lockTasks, handlers, issued>>

\* config.py lines 20-21: RECAP_SECRET is "" unless the environment sets it,
\* which is decided when the module is loaded, before any task exists
RecapSecretSet ==
    /\ mon.pc = "start"
    /\ ~recap_configured
    /\ recap_configured' = TRUE
    /\ UNCHANGED <<monVars, taskVars, recapVars, spotify, current_problem,
                   timerVars, hist, dlv, scen, hubVars>>

MonitorNext == RecapSecretSet \/ FreeProbe \/ MonitorStep

\* ---------------------------------------------------------------- ad loop
\* line 320: the body of the recurring loop opens with the 59x60 wait
RecurringEntryWarn == "r_warn"
RecurringEntry == "r_wait"

\* line 319 "while self.is_live": the 59x60 wait is entered, or the loop is
\* left
EnterRecurringNever == "done"
EnterRecurring == IF is_live THEN RecurringEntry ELSE "done"

\* lines 295-297, 307-309, 322-323, 330-331, 341-342: the liveness check
\* made after a sleep; the loop is left, or goes on to the next await
AfterDelayNoCheck(next) == next
AfterDelay(next) == IF ~is_live THEN "done" ELSE next

\* lines 299-301 and 333-335: start_commercial returned False, the loop is
\* left; it returned True, the announcement follows
AfterCommercialIgnored(o, next) == next
AfterCommercial(o, next) == IF o = "fail" THEN "done" ELSE next

\* _run_ad_loop lines 283-352: the pc a task reaches when it is resumed, not
\* cancelled, from the await named by its pc with outcome o of that await
\* ("ok"; "fail": start_commercial returned False; Raise: the call raised,
\* which lines 349-350 catch).  "f_" is the immediate first ad (lines
\* 289-312), "r_" the recurring phase (lines 319-345).
AdAfter(t, o) ==
    CASE t.pc = "start" ->
            IF t.immediate /\ is_live THEN "f_warn" ELSE EnterRecurring
      [] o = Raise -> "done"
      [] t.pc = "f_warn" -> "f_sleep60"
      [] t.pc = "f_sleep60" -> AfterDelay("f_commercial")
      [] t.pc = "f_commercial" -> AfterCommercial(o, "f_start")
      [] t.pc = "f_start" -> "f_sleep180"
      [] t.pc = "f_sleep180" -> AfterDelay("f_over")
      [] t.pc = "f_over" -> EnterRecurring
      [] t.pc = "r_wait" -> AfterDelay("r_warn")
      [] t.pc = "r_warn" -> "r_sleep60"
      [] t.pc = "r_sleep60" -> AfterDelay("r_commercial")
      [] t.pc = "r_commercial" -> AfterCommercial(o, "r_start")
      [] t.pc = "r_start" -> "r_sleep180"
      [] t.pc = "r_sleep180" -> AfterDelay("r_over")
      [] t.pc = "r_over" -> EnterRecurring

\* the outcomes the await named by pc can have
AdOutcomes(pc) ==
    IF pc \in {"f_commercial", "r_commercial"} THEN {"ok", "fail", Raise}
    ELSE IF pc \in {"f_warn", "f_start", "f_over", "r_warn", "r_start",
                    "r_over"} THEN {"ok", Raise}
    ELSE {"ok"}

\* an event of an ad cycle: a chat announcement, a sleep of arg time-units,
\* a commercial request of length arg, or its answer True ("granted")
Ev(ev, arg) == [ev |-> ev, arg |-> arg]

\* the event a task begins when it reaches the await named by pc
AdEvent(pc) ==
    CASE pc \in {"f_warn", "r_warn"} -> Ev("warn", 0)
      [] pc \in {"f_sleep60", "r_sleep60"} -> Ev("wait", 60)
      [] pc \in {"f_commercial", "r_commercial"} -> Ev("commercial", 180)
      [] pc \in {"f_start", "r_start"} -> Ev("starting", 0)
      [] pc \in {"f_sleep180", "r_sleep180"} -> Ev("wait", 180)
      [] pc \in {"f_over", "r_over"} -> Ev("over", 0)
      [] pc = "r_wait" -> Ev("wait", 59 * 60)

\* the events of the current cycle after a step from the await of t with
\* outcome o to the await named by pc: the 59x60 wait opens a new cycle, and
\* nothing is kept of a task that ended
CycleAfter(t, o, pc) ==
    LET answered == IF t.pc \in {"f_commercial", "r_commercial"} /\ o = "ok"
                       /\ ~t.cancel
                    THEN Append(t.cycle, Ev("granted", 0))
                    ELSE t.cycle
    IN  CASE pc = "done" -> <<>>
          [] pc = "r_wait" -> <<AdEvent(pc)>>
          [] OTHER -> Append(answered, AdEvent(pc))

\* one step of ad loop task i.  "start" covers the task not yet run and the
\* wait for connected_channels (lines 283-284).  A cancelled task gets
\* CancelledError at its await: caught at line 347 inside the try, and
\* ending the task outside it.
AdStepWith(i, o) ==
    /\ Pending(adTasks[i])
    /\ o \in AdOutcomes(adTasks[i].pc)
    /\ LET t == adTasks[i]
           pc == IF t.cancel THEN "done" ELSE AdAfter(t, o)
       IN  adTasks' = [adTasks EXCEPT
                         ![i].pc = pc,
                         ![i].cancel = FALSE,
                         ![i].cycle = CycleAfter(t, o, pc),
                         ![i].refused = /\ ~t.cancel
                                        /\ t.pc = "r_commercial"
                                        /\ o = "fail"]
    /\ UNCHANGED <<monVars, spTasks, last_track, recapVars, otherVars, hist,
                   dlv, scen, hubVars>>

AdStep(i) == \E o \in {"ok", "fail", Raise} : AdStepWith(i, o)

AdNext == \E i \in DOMAIN adTasks : AdStep(i)

\* ------------------------------------------------------ now-playing poller
Tracks == {"t1", "t2"}
\* spotify.current_playback: it raises, nothing is playing, or a track is
PlaybackResults == {Raise, "idle"} \cup Tracks

\* monitor_spotify lines 147-153: the loop test and the await that follows
PollerLoop ==
    IF ~is_live THEN "finally" ELSE IF ~spotify THEN "idle5" ELSE "playback"

\* the finally block, lines 197-200: the last broadcast, then the reset
PollerFinally(i) ==
    \E r \in BcStart(NowPlaying(FALSE)) :
       /\ spTasks' = [spTasks EXCEPT
                        ![i].pc = IF r.kind = "return" THEN "done" ELSE "final",
                        ![i].bc = r.bc, ![i].cancel = FALSE,
                        ![i].erred = FALSE, ![i].steady = FALSE]
       /\ last_track' = IF r.kind = "return" THEN NoneVal ELSE last_track
       /\ UNCHANGED overlay_clients

\* lines 169-193 / 183-193: a broadcast is begun; when it returns without
\* suspending (no client) the task goes on to the 5-unit sleep
PollerBroadcast(i, msg, steady) ==
    \E r \in BcStart(msg) :
       /\ spTasks' = [spTasks EXCEPT
                        ![i].pc = IF r.kind = "return" THEN "sleep5"
                                  ELSE "bcast",
                        ![i].bc = r.bc,
                        ![i].steady = r.kind = "suspend" /\ steady]
       /\ UNCHANGED overlay_clients

\* lines 155-177: something is playing; the track id is recorded when it
\* differs from the last one (then p is the new value, otherwise it is the
\* old one), and the playing message is broadcast in both cases
PlayingPollOnChange(i, p) ==
    /\ last_track' = p
    /\ IF p # last_track THEN PollerBroadcast(i, NowPlaying(TRUE), FALSE)
       ELSE /\ spTasks' = [spTasks EXCEPT ![i].pc = "sleep5"]
            /\ UNCHANGED overlay_clients
PlayingPoll(i, p) ==
    /\ last_track' = p
    /\ PollerBroadcast(i, NowPlaying(TRUE), p = last_track)

\* lines 178-186: nothing is playing; the last track id is reset when it was
\* set, and the not-playing message is broadcast in both cases
IdlePollOnChange(i) ==
    /\ last_track' = NoneVal
    /\ IF last_track # NoneVal
       THEN PollerBroadcast(i, NowPlaying(FALSE), FALSE)
       ELSE /\ spTasks' = [spTasks EXCEPT ![i].pc = "sleep5"]
            /\ UNCHANGED overlay_clients
IdlePoll(i) ==
    /\ last_track' = NoneVal
    /\ PollerBroadcast(i, NowPlaying(FALSE), last_track = NoneVal)

\* lines 188-193: the pc after one poll: an exception of the playback query
\* or of the broadcast is caught at line 190, and the 5-unit sleep follows
\* as it does after a poll without error
AfterPollUncaught(kind) == IF kind = Raise THEN "done" ELSE "sleep5"
AfterPoll(kind) == "sleep5"

\* the final broadcast bc ends with a client that was registered when it
\* began, is still registered (clients) and to which no send was attempted
FinalMissed(bc, clients) ==
    ~((bc.snap \cap clients) \subseteq (bc.visited \cup {bc.cur}))

\* one step of poller task i; p is the answer of the playback query when
\* the task is resumed from it
PollerStepWith(i, p) ==
    LET t == spTasks[i] IN
    /\ Pending(t)
    /\ (t.cancel \/ t.pc # "playback") => p = "idle"
    /\ IF t.cancel /\ t.pc \in {"start", "final"} THEN
           \* cancelled before its first step the coroutine never runs;
           \* cancelled inside the finally block it ends without the reset
           /\ spTasks' = [spTasks EXCEPT
                 ![i].pc = "done", ![i].cancel = FALSE, ![i].bc = NoBc,
                 ![i].missed = t.pc = "final"
                               /\ FinalMissed(t.bc, overlay_clients)]
           /\ UNCHANGED <<last_track, overlay_clients>>
       ELSE IF t.cancel THEN
           \* lines 188-189, 195-196: CancelledError reaches the finally
           PollerFinally(i)
       ELSE IF t.pc \in {"start", "idle5", "sleep5"} THEN
           IF PollerLoop = "finally" THEN PollerFinally(i)
           ELSE /\ spTasks' = [spTasks EXCEPT ![i].pc = PollerLoop]
                /\ UNCHANGED <<last_track, overlay_clients>>
       ELSE IF t.pc = "playback" THEN
           IF p = Raise THEN
               /\ spTasks' = [spTasks EXCEPT ![i].pc = AfterPoll(Raise),
                                             ![i].erred = TRUE]
               /\ UNCHANGED <<last_track, overlay_clients>>
           ELSE IF p \in Tracks THEN PlayingPoll(i, p)
           ELSE IdlePoll(i)
       ELSE IF t.pc = "bcast" THEN
           \E ok \in BOOLEAN : \E r \in BcResume(t.bc, ok) :
              /\ spTasks' = [spTasks EXCEPT
                               ![i].pc = IF r.kind = "suspend" THEN "bcast"
                                         ELSE AfterPoll(r.kind),
                               ![i].bc = r.bc,
                               ![i].erred = @ \/ r.kind = Raise,
                               ![i].steady = @ /\ r.kind = "suspend"]
              /\ overlay_clients' = r.clients
              /\ UNCHANGED last_track
       ELSE
           \* pc = "final"
           \E ok \in BOOLEAN : \E r \in BcResume(t.bc, ok) :
              /\ spTasks' = [spTasks EXCEPT
                               ![i].pc = IF r.kind = "suspend" THEN "final"
                                         ELSE "done",
                               ![i].bc = r.bc,
                               ![i].missed = r.kind # "suspend"
                                   /\ FinalMissed(t.bc, r.clients)]
              /\ overlay_clients' = r.clients
              /\ last_track' = IF r.kind = "return" THEN NoneVal
                               ELSE last_track
    /\ UNCHANGED <<monVars, adTasks, recapVars, otherVars, hist, dlv, scen, ws>>

PollerStep(i) == \E p \in PlaybackResults : PollerStepWith(i, p)

\* init_spotify lines 74-76: building the client raised, in the constructor,
\* before any task exists
InitSpotifyFails ==
    /\ mon.pc = "start"
    /\ spotify
    /\ spotify' = FALSE
    /\ UNCHANGED <<monVars, taskVars, recapVars, recap_configured,
                   current_problem, timerVars, hist, dlv, scen, hubVars>>

PollerNext == InitSpotifyFails \/ \E i \in DOMAIN spTasks : PollerStep(i)

\* ------------------------------------------------- submission collector
\* author names are sequences of characters; str.lower() maps each
\* character through LowerChar
UpperCase == {"A", "H"}
LowerChar(ch) ==
    CASE ch = "A" -> "a"
      [] ch = "H" -> "h"
      [] OTHER -> ch

Lower(name) == [k \in DOMAIN name |-> LowerChar(name[k])]

\* the authors of chat messages: two spellings of one chatter, and the bot
\* account with a capital
Authors == {<<"A", "l">>, <<"a", "l">>,
            <<"H", "a", "i", "r", "y", "r", "u", "g", "_">>}

\* what _LEETCODE_SUBMISSION_RE (lines 30-32) matches in a message: the
\* matched text group(0), as a sequence of pieces, and the slug group(1).
\* The match ends with the digits of the submission id.
Match(prefix, slug, id) ==
    [text |-> <<prefix, "leetcode.com", "/problems/", slug, "/submissions/",
                id>>,
     slug |-> slug]

Matches == {Match("https://", "two-sum", "1"),
            Match("https://www.", "two-sum", "1")}

\* the finditer results of one message, in order
MessageMatches ==
    {<<>>} \cup {<<m>> : m \in Matches}
           \cup {<<m, n>> : m \in Matches, n \in Matches}

\* str.rstrip("/") on a text given as pieces: trailing "/" pieces go
RECURSIVE RStripSlash(_)
RStripSlash(text) ==
    IF text # <<>> /\ text[Len(text)] = "/"
    THEN RStripSlash(SubSeq(text, 1, Len(text) - 1))
    ELSE text

\* line 250
NormalizedUrl(m) == Append(RStripSlash(m.text), "/")

\* line 251
SubmissionKeyRaw(author, url) == <<author, url>>
SubmissionKey(author, url) == <<Lower(author), url>>

\* lines 248-262: the loop over the matches of one message; acc carries
\* chatter_submissions, _seen_submissions and whether a match was dropped
RECURSIVE ScanMatches(_, _, _)
ScanMatches(author, ms, acc) ==
    IF ms = <<>> THEN acc
    ELSE LET url == NormalizedUrl(Head(ms))
             key == SubmissionKey(author, url)
         IN  ScanMatches(author, Tail(ms),
                 IF key \notin acc.seen
                 THEN [subs |-> Append(acc.subs,
                                   [twitch_user |-> author, url |-> url,
                                    slug |-> Head(ms).slug]),
                       seen |-> acc.seen \cup {key},
                       skipped |-> acc.skipped]
                 ELSE [acc EXCEPT !.skipped = TRUE])

\* lines 243-247: the message is scanned for submissions; an echo returns
\* at line 244
CollectsExactNick(author, echo) == ~echo /\ is_live /\ author # BotNick
Collects(author, echo) == ~echo /\ is_live /\ Lower(author) # BotNick

\* event_message lines 239-262 for a message that is no command; the
\* command dispatch of line 264 is the Command actions.  ignored observes
\* that a message with a submission link was not scanned.
EventMessage(author, echo, ms) ==
    /\ LET scan == IF Collects(author, echo)
                   THEN ScanMatches(author, ms,
                            [subs |-> chatter_submissions,
                             seen |-> seen_submissions,
                             skipped |-> issued.skipped])
                   ELSE [subs |-> chatter_submissions,
                         seen |-> seen_submissions,
                         skipped |-> issued.skipped]
       IN  /\ chatter_submissions' = scan.subs
           /\ seen_submissions' = scan.seen
           /\ issued' = [issued EXCEPT
                 !.skipped = scan.skipped,
                 !.ignored = @ \/ (ms # <<>> /\ ~Collects(author, echo))]
    /\ UNCHANGED <<monVars, taskVars, stream_problems, stream_start_ts,
                   envVars, current_problem, hist, dlv, scen, hubVars, lt_task,
                   ltlock_task, ltTasks, lockTasks, handlers>>

\* a message of a chatter, or an echo of a message the bot itself sent
ChatNext ==
    \E ms \in MessageMatches :
        \/ \E author \in Authors : EventMessage(author, FALSE, ms)
        \/ EventMessage(BotNick, TRUE, ms)

\* ------------------------------------------------------- overlay clients
\* overlay_handler lines 28-30: a websocket connects
ClientConnect(c) ==
    /\ ws[c] = "new"
    /\ ws' = [ws EXCEPT ![c] = "open"]
    /\ overlay_clients' = overlay_clients \cup {c}
    /\ UNCHANGED <<monVars, taskVars, recapVars, otherVars, hist, dlv, scen>>

\* overlay_handler lines 31-38: the connection ends, the handler discards it
ClientDisconnect(c) ==
    /\ ws[c] = "open"
    /\ ws' = [ws EXCEPT ![c] = "closed"]
    /\ overlay_clients' = overlay_clients \ {c}
    /\ UNCHANGED <<monVars, taskVars, recapVars, otherVars, hist, dlv, scen>>

HubNext == \E c \in Sockets : ClientConnect(c) \/ ClientDisconnect(c)

\* ----------------------------------------------------------------- timers
\* the minutes arguments tried: 0 and 181 are rejected (lines 370, 432)
MinuteArgs == {0, 25, 181}
ValidMinutesAny(m) == TRUE
ValidMinutes(m) == ~(m <= 0 \/ m > 180)

\* !lt urls: a LeetCode problem url and another url; extract_problem_name
\* (helpers.py lines 10-12) gives the title-cased slug or "Problem"
LtUrls == {"https://leetcode.com/problems/two-sum/", "https://example.com/x"}
ProblemSlug(url) ==
    IF url = "https://leetcode.com/problems/two-sum/" THEN "two-sum"
    ELSE NoneVal
extract_problem_name(url) ==
    IF ProblemSlug(url) = "two-sum" THEN "Two Sum" ELSE "Problem"

\* !ltlockin targets: plain text, which make_lockin_label (helpers.py lines
\* 114-138) returns as it is without an await, and a YouTube url, whose
\* label is awaited from get_youtube_label
LockinTargets == {"Two Sum", "https://youtu.be/abc"}
IsYoutube(target) == target = "https://youtu.be/abc"
YoutubeLabels == {"YouTube Video"}

NoHandler == [cmd |-> "none", pc |-> "done", minutes |-> 0, label |-> "",
              bc |-> NoBc]

\* log: the sleeps the timer has completed and the announcements it has
\* begun, in order; said: the number of those announcements
NewLtTimer(minutes, name) ==
    [pc |-> "sleep_half", cancel |-> FALSE, minutes |-> minutes,
     label |-> name, stale |-> FALSE, late |-> FALSE, log |-> <<>>,
     said |-> 0]

\* _run_lt_timer lines 395-396: the two sleeps, in seconds
Halfway(minutes) == (minutes * 60) \div 2
FinalWhole(minutes) == minutes * 60
Final(minutes) == minutes * 60 - Halfway(minutes)

\* what a timer of this many minutes, resumed from the await named by pc
\* without being cancelled, adds to its log: the sleep that is over and the
\* announcement begun after it
LtLogged(pc, minutes) ==
    CASE pc = "sleep_half" -> <<Ev("wait", Halfway(minutes)), Ev("half", 0)>>
      [] pc = "sleep_final" -> <<Ev("wait", Final(minutes)), Ev("up", 0)>>
      [] OTHER -> <<>>

\* cleared: "!ltlockin clear" was dispatched while the command that made
\* this timer was suspended, before the timer existed
NewLockTimer(minutes, label, sent) ==
    [pc |-> "sleep", cancel |-> FALSE, minutes |-> minutes, label |-> label,
     bc |-> NoBc, start |-> sent, stops |-> 0, announces |-> 0,
     stale |-> FALSE, late |-> FALSE, cleared |-> issued.raced]

\* a finished timer keeps what was observed of it, not its arguments
Finished(t) ==
    IF t.pc = "done"
    THEN [t EXCEPT !.minutes = 0, !.label = "", !.stale = FALSE,
                   !.log = <<>>]
    ELSE t

\* observation: the pending timers of a kind are superseded by a new one
Supersede(tasks) ==
    [k \in DOMAIN tasks |->
        IF Pending(tasks[k]) THEN [tasks[k] EXCEPT !.stale = TRUE]
        ELSE tasks[k]]

\* a handler that returned is dropped from the handlers in flight
Without(seq, h) ==
    SubSeq(seq, 1, h - 1) \o SubSeq(seq, h + 1, Len(seq))

\* the handlers of command cmd that are suspended
InFlight(cmd) == {h \in DOMAIN handlers : handlers[h].cmd = cmd}

\* observations of the timer commands kept in issued.  rejected: the last
\* command dispatched returned at one of its checks (lines 359-361, 370-372,
\* 415-417, 426-437); raced: a "!ltlockin clear" was dispatched while a
\* start command was suspended, and no start command was dispatched since;
\* shown: the command of the last lock-in broadcast, a start counting once
\* its first send to a client has begun, a stop from the call on
Rejected == [issued EXCEPT !.rejected = TRUE]

\* "!lt clear" finds a pending timer to cancel, and no start is in flight
LtClearCancels ==
    /\ lt_task # 0
    /\ Pending(ltTasks[lt_task])
    /\ InFlight("lt") = {}

\* leetcode_timer lines 356-385, from dispatch to its first await
CommandLt(privileged, url, minutes) ==
    /\ IF ~privileged THEN
           /\ issued' = Rejected
           /\ UNCHANGED <<current_problem, stream_problems, ltTasks, handlers>>
       ELSE IF url = "clear" THEN
           /\ ltTasks' = Cancel(ltTasks, lt_task)
           /\ current_problem' = NoneVal
           /\ issued' = [issued EXCEPT
                            !.ltCleared = @ \/ LtClearCancels,
                            !.rejected = FALSE]
           /\ UNCHANGED <<stream_problems, handlers>>
       ELSE IF url = NoneVal \/ ~ValidMinutes(minutes) THEN
           /\ issued' = Rejected
           /\ UNCHANGED <<current_problem, stream_problems, ltTasks, handlers>>
       ELSE
           /\ Len(ltTasks) + Cardinality(InFlight("lt")) < MaxTimers
           /\ Len(handlers) < MaxHandlers
           /\ issued' = [issued EXCEPT !.ltCleared = FALSE,
                                       !.rejected = FALSE]
           /\ current_problem' = url
           /\ stream_problems' =
                 IF ProblemSlug(url) # NoneVal
                    /\ \A k \in DOMAIN stream_problems :
                          stream_problems[k] # ProblemSlug(url)
                 THEN Append(stream_problems, ProblemSlug(url))
                 ELSE stream_problems
           /\ handlers' = Append(handlers,
                 [NoHandler EXCEPT !.cmd = "lt", !.pc = "send",
                                   !.minutes = minutes,
                                   !.label = extract_problem_name(url)])
           /\ UNCHANGED ltTasks
    /\ UNCHANGED <<monVars, taskVars, chatter_submissions, seen_submissions,
                   stream_start_ts, envVars, hist, dlv, scen, hubVars,
                   lt_task, ltlock_task, lockTasks>>

\* leetcode_timer lines 385-391: ctx.send answered; the timer task is made
LtHandlerStep(h, ok) ==
    /\ handlers[h].cmd = "lt"
    /\ handlers' = Without(handlers, h)
    /\ IF ok THEN
           /\ ltTasks' = Append(Supersede(ltTasks),
                                NewLtTimer(handlers[h].minutes,
                                           handlers[h].label))
           /\ lt_task' = Len(ltTasks) + 1
       ELSE UNCHANGED <<ltTasks, lt_task>>
    /\ UNCHANGED <<monVars, taskVars, recapVars, envVars, current_problem,
                   hist, dlv, scen, hubVars, ltlock_task, lockTasks, issued>>

\* _run_lt_timer lines 393-408: one step of timer task i
LtTimerStep(i, ok) ==
    LET t == ltTasks[i] IN
    /\ Pending(t)
    /\ (t.pc \in {"sleep_half", "sleep_final"} => ok)
    /\ ltTasks' = [ltTasks EXCEPT ![i] = Finished([t EXCEPT
          !.pc = IF t.cancel \/ ~ok THEN "done"
                 ELSE CASE t.pc = "sleep_half" -> "send_half"
                        [] t.pc = "send_half" -> "sleep_final"
                        [] t.pc = "sleep_final" -> "send_up"
                        [] t.pc = "send_up" -> "done",
          !.late = @ \/ (~t.cancel /\ t.stale
                         /\ t.pc \in {"sleep_half", "sleep_final"}),
          !.log = IF t.cancel THEN @ ELSE @ \o LtLogged(t.pc, t.minutes),
          !.said = IF ~t.cancel /\ t.pc \in {"sleep_half", "sleep_final"}
                   THEN @ + 1 ELSE @])]
    \* an announcement is begun after the timers were cleared
    /\ issued' = IF /\ issued.ltCleared
                    /\ ~t.cancel
                    /\ t.pc \in {"sleep_half", "sleep_final"}
                 THEN [issued EXCEPT !.ltFired = TRUE]
                 ELSE issued
    /\ UNCHANGED <<monVars, taskVars, recapVars, envVars, current_problem,
                   hist, dlv, scen, hubVars, lt_task, ltlock_task, lockTasks,
                   handlers>>

LockinStartInFlight == InFlight("lockin") # {}

\* leetcode_lockin lines 412-444, from dispatch to its first await
CommandLockin(privileged, args) ==
    /\ IF ~privileged THEN
           /\ issued' = Rejected
           /\ UNCHANGED <<current_problem, lockTasks, handlers>>
       ELSE IF args = <<"clear">> THEN
           \E r \in BcStart(StopMsg) :
              /\ r.kind = "suspend" => Len(handlers) < MaxHandlers
              /\ lockTasks' = Cancel(lockTasks, ltlock_task)
              /\ handlers' =
                    IF r.kind = "return" THEN handlers
                    ELSE Append(handlers,
                            [NoHandler EXCEPT !.cmd = "clear", !.pc = "bcast",
                                              !.bc = r.bc])
              /\ issued' =
                    IF ltlock_task # 0 /\ Pending(lockTasks[ltlock_task])
                       /\ ~LockinStartInFlight
                    THEN [issued EXCEPT !.cleared = TRUE, !.stopsSince = 1,
                                        !.rejected = FALSE, !.raced = FALSE,
                                        !.shown = "stop"]
                    ELSE [issued EXCEPT !.rejected = FALSE,
                                        !.raced = LockinStartInFlight,
                                        !.shown = "stop"]
              /\ UNCHANGED current_problem
       ELSE IF Len(args) < 2 \/ ~ValidMinutes(args[2]) THEN
           /\ issued' = Rejected
           /\ UNCHANGED <<current_problem, lockTasks, handlers>>
       ELSE
           /\ Len(lockTasks) + Cardinality(InFlight("lockin")) < MaxTimers
           /\ Len(handlers) < MaxHandlers
           /\ issued' = [issued EXCEPT !.cleared = FALSE, !.stopsSince = 0,
                                       !.rejected = FALSE, !.raced = FALSE]
           /\ current_problem' = args[1]
           /\ handlers' = Append(handlers,
                 [NoHandler EXCEPT
                     !.cmd = "lockin",
                     !.pc = IF IsYoutube(args[1]) THEN "label" ELSE "send",
                     !.minutes = args[2],
                     !.label = args[1]])
           /\ UNCHANGED lockTasks
    /\ UNCHANGED <<monVars, taskVars, recapVars, envVars, hist, dlv, scen,
                   hubVars, lt_task, ltlock_task, ltTasks>>

\* the timer task is made (lines 453-455) and the handler returns
LockinCreate(h, sent) ==
    /\ handlers' = Without(handlers, h)
    /\ lockTasks' = Append(Supersede(lockTasks),
                           NewLockTimer(handlers[h].minutes, handlers[h].label,
                                        sent))
    /\ ltlock_task' = Len(lockTasks) + 1

\* leetcode_lockin lines 442-458: one step of a start handler
LockinHandlerStep(h) ==
    LET hd == handlers[h] IN
    /\ hd.cmd = "lockin"
    /\ IF hd.pc = "label" THEN
           \* make_lockin_label answered; ctx.send is awaited
           /\ \E label \in YoutubeLabels :
                 handlers' = [handlers EXCEPT ![h].pc = "send",
                                              ![h].label = label]
           /\ UNCHANGED <<lockTasks, ltlock_task, overlay_clients, issued>>
       ELSE IF hd.pc = "send" THEN
           \* ctx.send answered or raised; the start broadcast begins
           \E ok \in BOOLEAN :
              IF ~ok THEN
                  /\ handlers' = Without(handlers, h)
                  /\ UNCHANGED <<lockTasks, ltlock_task, overlay_clients,
                                 issued>>
              ELSE
                  LET msg == Msg("start", hd.minutes * 60, hd.label, FALSE) IN
                  \E r \in BcStart(msg) :
                     /\ IF r.kind = "return"
                        THEN LockinCreate(h, msg) /\ UNCHANGED issued
                        ELSE /\ handlers' = [handlers EXCEPT
                                               ![h].pc = "bcast",
                                               ![h].bc = r.bc]
                             /\ issued' = [issued EXCEPT !.shown = "start"]
                             /\ UNCHANGED <<lockTasks, ltlock_task>>
                     /\ UNCHANGED overlay_clients
       ELSE
           \* pc = "bcast": resumed from ws.send inside overlay_broadcast
           \E ok \in BOOLEAN : \E r \in BcResume(hd.bc, ok) :
              /\ overlay_clients' = r.clients
              /\ UNCHANGED issued
              /\ IF r.kind = "suspend" THEN
                     /\ handlers' = [handlers EXCEPT ![h].bc = r.bc]
                     /\ UNCHANGED <<lockTasks, ltlock_task>>
                 ELSE IF r.kind = "return" THEN LockinCreate(h, hd.bc.msg)
                 ELSE /\ handlers' = Without(handlers, h)
                      /\ UNCHANGED <<lockTasks, ltlock_task>>
    /\ UNCHANGED <<monVars, taskVars, recapVars, envVars, current_problem,
                   hist, dlv, scen, ws, lt_task, ltTasks>>

\* leetcode_lockin lines 422-424: the stop broadcast of a clear goes on
ClearHandlerStep(h) ==
    /\ handlers[h].cmd = "clear"
    /\ \E ok \in BOOLEAN : \E r \in BcResume(handlers[h].bc, ok) :
          /\ overlay_clients' = r.clients
          /\ handlers' = IF r.kind = "suspend"
                         THEN [handlers EXCEPT ![h].bc = r.bc]
                         ELSE Without(handlers, h)
    /\ UNCHANGED <<monVars, taskVars, recapVars, envVars, current_problem,
                   hist, dlv, scen, ws, lt_task, ltlock_task, ltTasks,
                   lockTasks, issued>>

LockFinished(t) ==
    IF t.pc = "done"
    THEN [t EXCEPT !.minutes = 0, !.label = "", !.stale = FALSE,
                   !.start = NoMsg, !.cleared = FALSE]
    ELSE t

\* a stop broadcast begun by a timer counts after a clear
CountStop ==
    issued' = IF issued.cleared /\ issued.stopsSince < 2
              THEN [issued EXCEPT !.stopsSince = @ + 1, !.shown = "stop"]
              ELSE [issued EXCEPT !.shown = "stop"]

\* _run_ltlock_timer lines 460-469: one step of timer task i
LockTimerStep(i) ==
    LET t == lockTasks[i] IN
    /\ Pending(t)
    /\ IF t.cancel THEN
           \* CancelledError at the await, caught at line 466
           /\ lockTasks' = [lockTasks EXCEPT ![i] =
                 LockFinished([t EXCEPT !.pc = "done", !.bc = NoBc])]
           /\ UNCHANGED <<overlay_clients, issued>>
       ELSE IF t.pc = "sleep" THEN
           \* the sleep is over: the stop broadcast begins (line 463)
           \E r \in BcStart(StopMsg) :
              /\ lockTasks' = [lockTasks EXCEPT
                    ![i].pc = IF r.kind = "return" THEN "send" ELSE "bcast",
                    ![i].bc = r.bc,
                    ![i].stops = @ + 1,
                    ![i].announces = @ + (IF r.kind = "return" THEN 1 ELSE 0),
                    ![i].late = @ \/ t.stale]
              /\ CountStop
              /\ UNCHANGED overlay_clients
       ELSE IF t.pc = "bcast" THEN
           \* resumed from ws.send; on return ctx.send is awaited (line 464),
           \* RuntimeError is caught at line 468
           \E ok \in BOOLEAN : \E r \in BcResume(t.bc, ok) :
              /\ overlay_clients' = r.clients
              /\ lockTasks' = [lockTasks EXCEPT ![i] = LockFinished([t EXCEPT
                    !.pc = CASE r.kind = "suspend" -> "bcast"
                             [] r.kind = "return" -> "send"
                             [] OTHER -> "done",
                    !.bc = r.bc,
                    !.announces = @ + (IF r.kind = "return" THEN 1 ELSE 0),
                    !.late = @ \/ (t.stale /\ r.kind = "return")])]
              /\ UNCHANGED issued
       ELSE
           \* pc = "send": the announcement answered or raised
           /\ lockTasks' = [lockTasks EXCEPT ![i] =
                 LockFinished([t EXCEPT !.pc = "done"])]
           /\ UNCHANGED <<overlay_clients, issued>>
    /\ UNCHANGED <<monVars, taskVars, recapVars, envVars, current_problem,
                   hist, dlv, scen, ws, lt_task, ltlock_task, ltTasks,
                   handlers>>

\* the "!ltlockin" commands tried, caller's privilege and arguments: from a
\* privileged caller a clear, a start for each target, one without minutes
\* and one for each rejected number of minutes; a clear and a start from
\* another caller
LockinTried ==
    ({TRUE} \X ({<<"clear">>, <<"Two Sum">>}
                \cup {<<t, 25>> : t \in LockinTargets}
                \cup {<<"Two Sum", m>> : m \in MinuteArgs}))
    \cup ({FALSE} \X {<<"clear">>, <<"Two Sum", 25>>})

LtNext ==
    \/ \E privileged \in BOOLEAN, url \in LtUrls \cup {NoneVal, "clear"},
          minutes \in MinuteArgs : CommandLt(privileged, url, minutes)
    \/ \E h \in DOMAIN handlers : \E ok \in BOOLEAN : LtHandlerStep(h, ok)
    \/ \E i \in DOMAIN ltTasks : \E ok \in BOOLEAN : LtTimerStep(i, ok)

LockinNext ==
    \/ \E c \in LockinTried : CommandLockin(c[1], c[2])
    \/ \E h \in DOMAIN handlers : LockinHandlerStep(h) \/ ClearHandlerStep(h)
    \/ \E i \in DOMAIN lockTasks : LockTimerStep(i)

\* !lt commands and their timers
SpecLt == Init /\ [][LtNext]_vars

\* the shortest, a usual and the longest duration "!lt" accepts
TimerMinutes == {1, 25, 180}

\* privileged "!lt" starts of those durations for a LeetCode problem, and
\* clears, and the timers
LtTimerNext ==
    \/ \E url \in {u \in LtUrls : ProblemSlug(u) # NoneVal} \cup {"clear"},
          minutes \in TimerMinutes : CommandLt(TRUE, url, minutes)
    \/ \E h \in DOMAIN handlers : \E ok \in BOOLEAN : LtHandlerStep(h, ok)
    \/ \E i \in DOMAIN ltTasks : \E ok \in BOOLEAN : LtTimerStep(i, ok)

SpecLtTimer == Init /\ [][LtTimerNext]_vars

\* !ltlockin commands, their timers and the overlay clients
SpecLockin == Init /\ [][LockinNext \/ HubNext]_vars

SpecMonitor == Init /\ [][MonitorNext]_vars

\* the event loop resumes the monitor whenever the call or the sleep it
\* awaits has completed, and every request and sleep completes or fails
SpecMonitorFair ==
    SpecMonitor /\ WF_vars(FreeProbe) /\ WF_vars(MonitorStep)

\* lines 136-138: the monitor task is cancelled from outside (shutdown);
\* CancelledError is raised at the await it is suspended in and the loop is
\* left by "break".  Nothing else is done: the task handles are not touched.
MonitorCancelled ==
    /\ mon.pc # "cancelled"
    /\ mon' = [pc |-> "cancelled", attempt |-> 0]
    /\ UNCHANGED <<is_live, first_check, ad_task, spotify_task, taskVars,
                   recapVars, otherVars, hist, dlv, scen, hubVars>>

\* the monitor, which may be cancelled at any await
SpecShutdown == Init /\ [][MonitorNext \/ MonitorCancelled]_vars

\* monitor and chat messages
SpecChat == Init /\ [][MonitorNext \/ ChatNext]_vars

\* monitor and ad loops; the pollers are created and cancelled but not run
SpecAd == Init /\ [][MonitorNext \/ AdNext]_vars

\* the probe answers anything, for at most MaxLoopSessions live edges
BoundedProbe ==
    \E resp \in StreamResponses :
        /\ MonitorProbe(resp)
        /\ hist'.sessions <= MaxLoopSessions
        /\ UNCHANGED scen

\* the monitor and the ad loops of a few sessions, every interleaving
SpecAdLoop ==
    Init /\ [][RecapSecretSet \/ BoundedProbe \/ MonitorStep \/ AdNext]_vars

\* the monitor, the pollers of a few sessions and the overlay clients
SpecPollerHub ==
    Init /\ [][\/ RecapSecretSet \/ BoundedProbe \/ MonitorStep
               \/ PollerNext \/ HubNext]_vars

\* monitor and pollers, no overlay client connected
SpecPoller == Init /\ [][MonitorNext \/ PollerNext]_vars

\* ------------------------------------------------------ scripted scenario
\* the probe results of the scenario [false, false, true, true, true, false]
Script == <<FALSE, FALSE, TRUE, TRUE, TRUE, FALSE>>

\* the probe answers without error what the script says; allTwenty records
\* that every poll so far followed a 20-unit sleep (none followed the
\* 10-unit back-off)
ScriptedProbe ==
    /\ scen.polls < Len(Script)
    /\ \E resp \in StreamResponses :
          /\ ~is_stream_live_raises(resp)
          /\ is_stream_live(resp) = Script[scen.polls + 1]
          /\ MonitorProbe(resp)
    /\ scen' = [polls |-> scen.polls + 1,
                allTwenty |-> scen.allTwenty /\ mon.pc # "sleep10"]

SpecScenario ==
    Init /\ [][RecapSecretSet \/ ScriptedProbe \/ MonitorStep \/ AdNext]_vars

\* one session of the scripted sequence with its poller and the overlay
\* clients, every interleaving
SpecPollerScenario ==
    Init /\ [][\/ RecapSecretSet \/ ScriptedProbe \/ MonitorStep
               \/ PollerNext \/ HubNext]_vars

\* the probe results of two sessions with an offline poll before, between
\* and after them
TwoSessions == <<FALSE, TRUE, FALSE, TRUE, FALSE>>

\* the probe answers without error what TwoSessions says
TwoSessionProbe ==
    /\ scen.polls < Len(TwoSessions)
    /\ \E resp \in StreamResponses :
          /\ ~is_stream_live_raises(resp)
          /\ is_stream_live(resp) = TwoSessions[scen.polls + 1]
          /\ MonitorProbe(resp)
    /\ scen' = [scen EXCEPT !.polls = @ + 1]

\* a chat message of a chatter with one submission link
ChatterSubmits ==
    \E author \in Authors, m \in Matches : EventMessage(author, FALSE, <<m>>)

\* a privileged "!lt <url> 25", up to its confirmation send
LtStarts == \E url \in LtUrls : CommandLt(TRUE, url, 25)

\* two sessions with chat submissions and !lt commands at any moment
SpecRecap ==
    Init /\ [][\/ RecapSecretSet \/ TwoSessionProbe \/ MonitorStep
               \/ ChatterSubmits \/ LtStarts]_vars

\* ----------------------------------------------------------------- claims
AdRunning == \E i \in DOMAIN adTasks : Running(adTasks[i])
PollerRunning == \E i \in DOMAIN spTasks : Running(spTasks[i])

\* C1: whenever the monitor is idle between polls, the ad loop task and the
\* poller task are running if and only if the last detected edge was
\* offline->live (is_live is true)
TasksRunIffLive ==
    MonIdle => /\ AdRunning <=> is_live
               /\ PollerRunning <=> is_live

\* C2: at most one ad loop task and at most one poller task are running
AtMostOneLoopPerKind ==
    /\ Cardinality({i \in DOMAIN adTasks : Running(adTasks[i])}) <= 1
    /\ Cardinality({i \in DOMAIN spTasks : Running(spTasks[i])}) <= 1

\* C3: for both timer kinds at most one timer task is active, and no
\* callback of a superseded timer fires after the newer timer was started
SupersededTimerIsSilent ==
    /\ Cardinality({i \in DOMAIN ltTasks : Running(ltTasks[i])}) <= 1
    /\ Cardinality({i \in DOMAIN lockTasks : Running(lockTasks[i])}) <= 1
    /\ \A i \in DOMAIN ltTasks : ~ltTasks[i].late
    /\ \A i \in DOMAIN lockTasks : ~lockTasks[i].late

\* the dedup key of a recorded submission, as the claim states it
RecordedPair(sub) == <<Lower(sub.twitch_user), sub.url>>

\* C4: each (lower-cased author, normalized URL) pair appears at most once
\* in chatter_submissions
SubmissionPairsUnique ==
    \A i, j \in DOMAIN chatter_submissions :
        i # j => RecordedPair(chatter_submissions[i])
                   # RecordedPair(chatter_submissions[j])

\* C4 witness: a submission is recorded and a later match with the same
\* pair was observed and dropped
DuplicateDropped ==
    /\ issued.skipped
    /\ Len(chatter_submissions) >= 1
    /\ is_live

\* C5 as stated: when delete_latest_vod has returned, it has issued a delete
\* request if and only if the category it read was exactly "Fitness & Health"
DeleteIffCategoryMatches ==
    dlv.status = "returned" =>
        (dlv.deletes = 1 <=> dlv.category = FitnessCategory)

\* the VOD list answered 200 with a parsable body holding a recording with id
VodListed(resp) ==
    /\ resp.status = 200
    /\ resp.json
    /\ Len(resp.data) > 0
    /\ resp.data[1].id # NoneVal

\* C5 amended: at most one delete request is issued, only for the category
\* "Fitness & Health", and then exactly when the VOD list answers 200 with a
\* recording; any other category (None after the attempts included) gives
\* zero delete requests
DeleteOnlyForCategoryAndVod ==
    /\ dlv.deletes <= 1
    /\ dlv.deletes = 1 => dlv.category = FitnessCategory
    /\ dlv.category # FitnessCategory => dlv.deletes = 0
    /\ dlv.status \in {"returned", "raised"} =>
          (dlv.deletes = 1 <=>
              dlv.category = FitnessCategory /\ VodListed(dlv.list))

\* C5 witness: a call that read "Fitness & Health", found a recording,
\* issued the delete request and returned
DeleteIssued ==
    /\ dlv.status = "returned"
    /\ dlv.category = FitnessCategory
    /\ dlv.deletes = 1

\* C6: after the 6th poll of the scripted sequence, all polls 20 units
\* apart, the ad loop was started exactly once, in immediate mode, after the
\* 3rd poll, and there was exactly one cancellation of it and one recap flush
ScenarioOneStartOneCancelOneFlush ==
    (scen.polls = Len(Script) /\ scen.allTwenty /\ MonIdle) =>
        /\ Len(adTasks) = 1
        /\ adTasks[1].immediate
        /\ adTasks[1].poll = 3
        /\ hist.adCancels = 1
        /\ hist.recapCalls = 1

\* C7: a lock-in timer was started after a start message with its duration
\* in seconds and its label; it broadcasts stop at most once and announces
\* only after the stop; one that ended without being cancelled has
\* broadcast exactly one stop and made exactly one announcement
LockinStartStopAnnounce ==
    \A i \in DOMAIN lockTasks :
        LET t == lockTasks[i] IN
        /\ Pending(t) => t.start = Msg("start", t.minutes * 60, t.label, FALSE)
        /\ t.stops <= 1
        /\ t.announces <= t.stops
        /\ (t.pc = "done" /\ ~t.cancel) => (t.stops = 1 /\ t.announces = 1)

\* C8: after "!ltlockin clear" found an active timer (and while no later
\* start is accepted) exactly one stop broadcast has been made: the clear's
\* own
ClearBroadcastsOneStop ==
    issued.cleared => issued.stopsSince = 1

\* C9: an ad loop is in deferred mode exactly when it was started in the
\* first iteration of the monitor loop, and a poller is started with it
DeferredIffFirstIteration ==
    /\ \A i \in DOMAIN adTasks : ~adTasks[i].immediate <=> adTasks[i].firstIter
    /\ MonIdle => Len(spTasks) = Len(adTasks)

\* C10: no failure of delete_latest_vod reaches the monitor, and when the
\* monitor is idle after an offline edge both task handles are cleared
CleanupNeverPropagates ==
    /\ dlv.status # "raised"
    /\ (MonIdle /\ ~is_live) => (ad_task = 0 /\ spotify_task = 0)

\* the monitor is inside the offline-edge handler (lines 117-131): awaiting
\* the recap POST or a request of delete_latest_vod
InOfflineHandler == mon.pc \in {"recap", "category", "vodlist", "voddelete"}

\* C11: on a live->offline edge is_live becomes false only after the recap
\* flush, the cleanup action and the cancel-and-await of both tasks, so it is
\* still true while the handler runs; and when the handler has finished the
\* ad loop and the poller it cancelled have terminated
OfflineEdgeOrder ==
    /\ InOfflineHandler => is_live
    /\ (hist.offlineDone /\ MonIdle) =>
          /\ \A i \in DOMAIN adTasks : ~Pending(adTasks[i])
          /\ \A i \in DOMAIN spTasks : ~Pending(spTasks[i])

\* C12: an error of the probe or of a call made while handling an edge is
\* caught: a probe error leaves is_live and both task handles as they were
\* and puts the monitor in its 10-unit back-off, and the monitor goes on
\* polling for ever
MonitorSurvives ==
    /\ [][\A resp \in StreamResponses :
             (is_stream_live_raises(resp) /\ MonitorProbe(resp)) =>
                 /\ mon'.pc = "sleep10"
                 /\ UNCHANGED <<is_live, ad_task, spotify_task>>]_vars
    /\ []<><<FreeProbe>>_vars

\* C12 witness: a request of the cleanup action failed while the offline edge
\* was handled, and the monitor is in its back-off before the next poll
BackoffAfterEdgeError ==
    /\ mon.pc = "sleep10"
    /\ dlv.status = "raised"
    /\ ~is_live

\* C13: a probe whose request gets a non-success response or fails in
\* transport answers not live: after it the monitor holds is_live false (a
\* live session sees the offline edge)
FailedProbeIsNotLive ==
    [][\A resp \in StreamResponses :
          (resp.status # 200 /\ MonitorProbe(resp)) => ~is_live']_vars

\* C14: once the monitor loop has been cancelled, no ad loop and no poller
\* it started keeps running
MonitorCancelPropagates ==
    mon.pc = "cancelled" => (~AdRunning /\ ~PollerRunning)

\* the awaits of the ad loop that are externally visible actions: a chat
\* announcement or the commercial request
VisiblePcs == {"f_warn", "f_commercial", "f_start", "f_over",
               "r_warn", "r_commercial", "r_start", "r_over"}
\* those the loop begins without an await since its last test of is_live
CheckedPcs == VisiblePcs \ {"f_start", "r_start"}

FirstPhasePcs == {"start", "f_warn", "f_sleep60", "f_commercial", "f_start",
                  "f_sleep180", "f_over"}

\* C16 as stated: an ad loop ends before its recurring phase only by
\* cancellation or by a liveness check that failed
RecurringAlwaysEntered ==
    [][\A i \in DOMAIN adTasks : \A o \in {"ok", "fail", Raise} :
          (/\ AdStepWith(i, o)
           /\ adTasks[i].pc \in FirstPhasePcs
           /\ adTasks'[i].pc = "done")
              => (adTasks[i].cancel \/ ~is_live)]_vars

\* C16 amended: an ad loop ends before its recurring phase only by
\* cancellation, by a liveness check that failed, by a commercial request
\* that failed or by a call that raised; otherwise the step that leaves the
\* first phase (or skips it, in deferred mode) enters the 59x60 wait
RecurringEnteredUnlessFailed ==
    [][\A i \in DOMAIN adTasks : \A o \in {"ok", "fail", Raise} :
          (AdStepWith(i, o) /\ adTasks[i].pc \in FirstPhasePcs) =>
             /\ adTasks'[i].pc = "done" =>
                   (adTasks[i].cancel \/ ~is_live \/ o \in {"fail", Raise})
             /\ (/\ ~adTasks[i].cancel
                 /\ is_live
                 /\ o = "ok"
                 /\ \/ adTasks[i].pc = "f_over"
                    \/ adTasks[i].pc = "start" /\ ~adTasks[i].immediate)
                   => adTasks'[i].pc = "r_wait"]_vars

\* C16 witness: a loop started in immediate mode is in the 59x60 wait
ImmediateLoopRecurring ==
    \E i \in DOMAIN adTasks :
        adTasks[i].immediate /\ adTasks[i].pc = "r_wait"

\* get_current_category has returned to delete_latest_vod, which recorded
\* the value in dlv.category
CategoryReturned ==
    dlv.status = "returned" \/ mon.pc \in {"vodlist", "voddelete"}

\* the non-empty categories a stream entry can carry
Categories == {g \in GameNames : g # NoneVal /\ g # ""}

\* C17 as stated: at most 5 requests, and the value returned is a non-empty
\* category or, after 5 attempts without one, "unknown"
CategoryOrUnknown ==
    /\ dlv.gets <= 5
    /\ CategoryReturned => dlv.category \in Categories \cup {"unknown"}

\* C17 amended: at most 5 requests; an attempt that sees a non-empty
\* category returns it and sends no further request; an attempt that sees
\* none is followed by one more request, or after the 5th by the return of
\* None
CategoryOrNone ==
    /\ [](/\ dlv.gets <= 5
          /\ CategoryReturned => dlv.category \in Categories \cup {NoneVal}
          /\ (CategoryReturned /\ dlv.category = NoneVal) => dlv.gets = 5)
    /\ [][\A resp \in StreamResponses :
             MonitorCategory(resp) =>
                LET r == CategoryAttempt(resp) IN
                /\ r \in Categories =>
                      /\ dlv'.category = r
                      /\ dlv'.gets = dlv.gets
                      /\ CategoryReturned'
                /\ r = "retry" =>
                      \/ dlv.gets < 5 /\ dlv'.gets = dlv.gets + 1
                                      /\ ~CategoryReturned'
                      \/ dlv.gets = 5 /\ dlv'.gets = 5
                                      /\ dlv'.category = NoneVal
                                      /\ CategoryReturned'
                /\ r = Raise => ~CategoryReturned']_vars

\* C17 witness: all 5 attempts saw no category and None was returned
CategoryExhausted ==
    /\ dlv.status = "returned"
    /\ dlv.gets = 5
    /\ dlv.category = NoneVal

\* C18: with the sink configured every offline edge sends exactly one recap
\* request, with the sink unconfigured none; whether the request answers or
\* fails the handler goes on to the cleanup action with is_live false, and
\* once the cleanup has returned the tasks the handles referred to are
\* cancelled and the handles cleared
RecapNeverBlocksOffline ==
    /\ [](/\ hist.recapCalls <= hist.sessions
          /\ hist.recapPosts = IF recap_configured THEN hist.recapCalls ELSE 0
          /\ mon.pc = "recap" => recap_configured
          /\ dlv.status = "returned" =>
                (MonIdle /\ ~is_live /\ ad_task = 0 /\ spotify_task = 0))
    /\ [][(dlv.status # "returned" /\ dlv'.status = "returned") =>
             /\ ad_task # 0 => ~Running(adTasks'[ad_task])
             /\ spotify_task # 0 => ~Running(spTasks'[spotify_task])]_vars
    /\ [][\A ok \in BOOLEAN :
             MonitorRecap(ok) =>
                /\ mon'.pc = "category"
                /\ dlv'.status = "running"
                /\ hist'.recapPosts = hist.recapPosts
                /\ ~is_live']_vars

\* C18 witness: an offline edge with the sink configured sent its one recap
\* request and the transition was completed
RecapSentAndOfflineDone ==
    /\ recap_configured
    /\ hist.recapPosts = 1
    /\ hist.offlineDone
    /\ dlv.status = "returned"

\* C19: after "!lt clear" has cancelled the timer, no halfway or time's-up
\* announcement of a timer started before the clear is begun until a new
\* timer is started
ClearedLtTimerIsSilent == ~issued.ltFired

\* C20: a poller that ended after the stream went offline has sent the
\* final not-playing message to every client that was registered when the
\* final broadcast began and still is when the task ends
FinalBroadcastReachesAll ==
    \A i \in DOMAIN spTasks : ~spTasks[i].missed

\* the broadcasts that are suspended in a send: those of the command
\* handlers, of the lock-in timers and of the pollers
BroadcastsInFlight ==
    {handlers[h].bc : h \in {k \in DOMAIN handlers : handlers[k].pc = "bcast"}}
    \cup {lockTasks[i].bc :
             i \in {k \in DOMAIN lockTasks : lockTasks[k].pc = "bcast"}}
    \cup {spTasks[i].bc :
             i \in {k \in DOMAIN spTasks :
                       spTasks[k].pc \in {"bcast", "final"}}}

\* C21: a broadcast whose send to one client fails ends by returning, with
\* exactly the clients whose send failed removed from the client set and
\* with every other client that is still registered sent the message
FailedSendIsIsolated ==
    \A bc \in BroadcastsInFlight : \A r \in BcResume(bc, FALSE) :
        r.kind # "suspend" =>
            /\ r.kind = "return"
            /\ r.clients = overlay_clients \ (bc.dead \cup {bc.cur})
            /\ (bc.snap \cap overlay_clients) \subseteq
                   (bc.visited \cup {bc.cur})

IsPrefix(a, b) == Len(a) <= Len(b) /\ a = SubSeq(b, 1, Len(a))

\* the order of one ad cycle as the claim states it
CycleOrder ==
    <<Ev("warn", 0), Ev("wait", 60), Ev("commercial", 180), Ev("granted", 0),
      Ev("starting", 0), Ev("wait", 180), Ev("over", 0)>>

\* the events of a cycle without the 59x60 wait that opens it
CycleBody(c) ==
    IF c # <<>> /\ c[1] = Ev("wait", 59 * 60) THEN Tail(c) ELSE c

\* C22: the events of every ad cycle are begun in the order warning, 60-unit
\* wait, commercial request of length 180, "ad starting", 180-unit wait, "ad
\* break over": a commercial is requested only after the warning of its
\* cycle, and "ad break over" is announced only after a commercial request
\* of its cycle succeeded
AdCycleInOrder ==
    \A i \in DOMAIN adTasks :
        IsPrefix(CycleBody(adTasks[i].cycle), CycleOrder)

\* C22 witness: a recurring cycle has gone through all its events and is
\* announcing "ad break over"
AdCycleCompleted ==
    \E i \in DOMAIN adTasks :
        /\ adTasks[i].pc = "r_over"
        /\ CycleBody(adTasks[i].cycle) = CycleOrder

\* C23: a commercial request of the recurring phase that fails (it answers
\* False, or the call raises) ends the ad loop at that step, before any "ad
\* starting" or "ad break over" of the cycle; a loop that has ended takes no
\* further step, so the request is not repeated
FailedCommercialStopsLoop ==
    /\ [](\A i \in DOMAIN adTasks :
             adTasks[i].refused => adTasks[i].pc = "done")
    /\ [][\A i \in DOMAIN adTasks :
             /\ \A o \in {"fail", Raise} :
                   (AdStepWith(i, o) /\ adTasks[i].pc = "r_commercial")
                       => adTasks'[i].pc = "done"
             /\ adTasks[i].pc = "done" => adTasks'[i] = adTasks[i]]_vars

\* C23 witness: a recurring commercial request answered False and the loop
\* has stopped while the stream is still live
LoopStoppedByRefusal ==
    \E i \in DOMAIN adTasks :
        /\ adTasks[i].refused
        /\ adTasks[i].pc = "done"
        /\ is_live

\* the awaits of the recurring phase that are externally visible
RecurringPcs == {"r_warn", "r_commercial", "r_start", "r_over"}

\* C24: a loop started in deferred mode begins no announcement and no
\* commercial request before its first 59x60 wait is over, and in every loop
\* the cycle that follows another opens with a full 59x60 wait: the step
\* that ends a cycle enters that wait (or ends the loop), and a recurring
\* warning is begun only by the step that completes it
WaitSeparatesCycles ==
    /\ [](\A i \in DOMAIN adTasks :
             LET t == adTasks[i] IN
             /\ ~t.immediate => t.pc \notin FirstPhasePcs \ {"start"}
             /\ t.pc \in RecurringPcs =>
                   (Len(t.cycle) >= 2 /\ t.cycle[1] = Ev("wait", 59 * 60)))
    /\ [][\A i \in DOMAIN adTasks :
             LET t == adTasks[i]
                 u == adTasks'[i]
             IN  /\ (u.pc = "r_warn" /\ t.pc # "r_warn") =>
                       (t.pc = "r_wait" /\ t.cycle = <<Ev("wait", 59 * 60)>>)
                 /\ (t.pc \in {"f_over", "r_over"} /\ u.pc # t.pc) =>
                       u.pc \in {"r_wait", "done"}]_vars

\* C24 witness: a loop started in deferred mode has completed its first
\* 59x60 wait and is sending its first warning
DeferredFirstWarning ==
    \E i \in DOMAIN adTasks :
        /\ ~adTasks[i].immediate
        /\ adTasks[i].pc = "r_warn"
        /\ adTasks[i].cycle = <<Ev("wait", 59 * 60), Ev("warn", 0)>>

\* poller task i is resumed, not cancelled, from the playback query
PlaybackAnswered(i, p) ==
    /\ PollerStepWith(i, p)
    /\ spTasks[i].pc = "playback"
    /\ ~spTasks[i].cancel

\* poller task i goes from the playback query into the first send of a
\* broadcast of msg
BeginsBroadcast(i, msg) ==
    /\ spTasks[i].pc = "playback"
    /\ spTasks'[i].pc = "bcast"
    /\ spTasks'[i].bc.msg = msg

\* C25 as stated: a playing=true message is broadcast only on a poll whose
\* track id differs from the last one
PlayingBroadcastOnlyOnChange ==
    [][\A i \in DOMAIN spTasks : \A p \in Tracks :
          (PlaybackAnswered(i, p) /\ BeginsBroadcast(i, NowPlaying(TRUE)))
              => p # last_track]_vars

\* C25 amended: every poll that observes a playing track records its id and
\* broadcasts a playing=true message, to the clients registered at that
\* moment, also when the id is the one of the last poll
PlayingBroadcastOnEveryPoll ==
    [][\A i \in DOMAIN spTasks : \A p \in Tracks :
          PlaybackAnswered(i, p) =>
             /\ last_track' = p
             /\ overlay_clients # {} =>
                   /\ BeginsBroadcast(i, NowPlaying(TRUE))
                   /\ spTasks'[i].bc.snap = overlay_clients
             /\ overlay_clients = {} => spTasks'[i].pc = "sleep5"]_vars

\* C25 witness: a second poll in a row observed the same playing track and
\* its playing=true broadcast is in progress
SameTrackBroadcastAgain ==
    \E i \in DOMAIN spTasks :
        /\ spTasks[i].pc = "bcast"
        /\ spTasks[i].steady
        /\ spTasks[i].bc.msg = NowPlaying(TRUE)
        /\ last_track \in Tracks

\* C26 as stated: a not-playing message is broadcast on a poll only if the
\* previous observed state had something playing
IdleBroadcastOnlyOnChange ==
    [][\A i \in DOMAIN spTasks :
          (PlaybackAnswered(i, "idle") /\ BeginsBroadcast(i, NowPlaying(FALSE)))
              => last_track # NoneVal]_vars

\* C26 amended: every poll that observes nothing playing broadcasts a
\* not-playing message, to the clients registered at that moment, also when
\* the poll before it observed nothing playing; the recorded track id is
\* None afterwards
IdleBroadcastOnEveryPoll ==
    [][\A i \in DOMAIN spTasks :
          PlaybackAnswered(i, "idle") =>
             /\ last_track' = NoneVal
             /\ overlay_clients # {} =>
                   /\ BeginsBroadcast(i, NowPlaying(FALSE))
                   /\ spTasks'[i].bc.snap = overlay_clients
             /\ overlay_clients = {} => spTasks'[i].pc = "sleep5"]_vars

\* C26 witness: a poll observed nothing playing while no track was recorded
\* and its not-playing broadcast is in progress
IdleBroadcastAgain ==
    \E i \in DOMAIN spTasks :
        /\ spTasks[i].pc = "bcast"
        /\ spTasks[i].steady
        /\ spTasks[i].bc.msg = NowPlaying(FALSE)
        /\ last_track = NoneVal

\* C27: an exception of the playback query or of a broadcast made by a poll
\* is caught and the 5-unit sleep follows; a poller that is not cancelled
\* leaves its loop only at a loop test that finds is_live false, and from
\* the sleep it goes on to the next poll while is_live is true
PollErrorsAreCaught ==
    [][\A i \in DOMAIN spTasks :
          LET t == spTasks[i]
              u == spTasks'[i]
          IN  /\ PlaybackAnswered(i, Raise) => (u.pc = "sleep5" /\ u.erred)
              /\ (t.pc = "bcast" /\ ~t.cancel /\ u.pc # "bcast") =>
                    u.pc = "sleep5"
              /\ (~t.cancel /\ t.pc \notin {"done", "final"}
                            /\ u.pc \in {"done", "final"}) =>
                    (~is_live /\ t.pc \in {"start", "sleep5", "idle5"})
              /\ (~t.cancel /\ is_live /\ t.pc = "sleep5" /\ u.pc # t.pc) =>
                    u.pc \in {"playback", "idle5"}]_vars

\* C27 witness: a poll ended in a caught error, the stream is live and the
\* poller, not cancelled, has gone on to its next playback query
PollerPollsAfterError ==
    \E i \in DOMAIN spTasks :
        /\ spTasks[i].erred
        /\ spTasks[i].pc = "playback"
        /\ ~spTasks[i].cancel
        /\ is_live

\* C28: chatter_submissions and the seen-key set change only in two kinds of
\* step: the reset at a live edge, and a message that arrives while is_live
\* is true, which only adds to them; no recorded submission and no seen key
\* is the bot account's.  So a message arriving while is_live is false, an
\* echo and a message of the bot account leave both unchanged.
OnlyLiveChatterMessagesRecorded ==
    /\ [](/\ \A k \in DOMAIN chatter_submissions :
               Lower(chatter_submissions[k].twitch_user) # BotNick
          /\ \A key \in seen_submissions : key[1] # BotNick)
    /\ [][<<chatter_submissions, seen_submissions>>'
             # <<chatter_submissions, seen_submissions>> =>
             \/ chatter_submissions' = <<>> /\ seen_submissions' = {}
             \/ /\ is_live
                /\ is_live'
                /\ IsPrefix(chatter_submissions, chatter_submissions')
                /\ seen_submissions \subseteq seen_submissions']_vars

\* C28 witness: a message carrying a submission link was left out (offline,
\* echo or the bot's own) and a chatter's submission is recorded in the
\* live session
IgnoredAndRecorded ==
    /\ issued.ignored
    /\ chatter_submissions # <<>>
    /\ is_live

\* C29: every live edge empties the submissions, the seen keys and the
\* problems and sets the stream start; between live edges the three only
\* grow; and the payload of a recap POST is the stream start of the most
\* recent live edge with the submissions and problems as they are at the
\* offline edge, that is, exactly what was recorded since that live edge
RecapCoversLastSession ==
    /\ [][hist'.sessions # hist.sessions =>
             /\ chatter_submissions' = <<>>
             /\ seen_submissions' = {}
             /\ stream_problems' = <<>>
             /\ stream_start_ts' = hist'.sessions]_vars
    /\ [][hist'.sessions = hist.sessions =>
             /\ IsPrefix(chatter_submissions, chatter_submissions')
             /\ seen_submissions \subseteq seen_submissions'
             /\ IsPrefix(stream_problems, stream_problems')
             /\ UNCHANGED stream_start_ts]_vars
    /\ [][hist'.recapPosts # hist.recapPosts =>
             /\ hist'.payload.stream_start = hist.sessions
             /\ hist'.payload.chatter_submissions = chatter_submissions'
             /\ hist'.payload.stream_problems = stream_problems'
             /\ UNCHANGED <<chatter_submissions, stream_problems>>]_vars

\* C29 witness: the offline edge of the second session flushes a payload
\* with a submission and a problem, both recorded in that session
SecondSessionFlushed ==
    /\ hist.sessions = 2
    /\ hist.recapPosts = 2
    /\ hist.payload.stream_start = 2
    /\ hist.payload.chatter_submissions # <<>>
    /\ hist.payload.stream_problems # <<>>

\* what the claim says a timer of this many minutes does: the halfway
\* announcement after floor(60m/2) seconds, the time's-up announcement after
\* the remaining 60m - floor(60m/2)
LtSchedule(minutes) ==
    <<Ev("wait", (60 * minutes) \div 2), Ev("half", 0),
      Ev("wait", 60 * minutes - (60 * minutes) \div 2), Ev("up", 0)>>

AcceptedLt(privileged, url, minutes) ==
    privileged /\ url \notin {NoneVal, "clear"} /\ ValidMinutes(minutes)
AcceptedLockin(privileged, args) ==
    privileged /\ Len(args) = 2 /\ ValidMinutes(args[2])

\* no timer of the kind was started and no start of the kind is in flight
NoLtYet == ltTasks = <<>> /\ InFlight("lt") = {}
NoLockinYet == lockTasks = <<>> /\ InFlight("lockin") = {}

\* the "!lt" commands tried: every kind of argument list from a privileged
\* caller, a clear and a start from another caller
LtTried ==
    ({TRUE} \X {"https://leetcode.com/problems/two-sum/", NoneVal, "clear"}
            \X MinuteArgs)
    \cup ({FALSE} \X {"https://leetcode.com/problems/two-sum/", "clear"}
                  \X {25})

\* those commands at any time, except that a start is accepted only while
\* no timer of its kind was started before; the handlers in flight and the
\* timers
CommandsNext ==
    \/ \E c \in LtTried :
          /\ AcceptedLt(c[1], c[2], c[3]) => NoLtYet
          /\ CommandLt(c[1], c[2], c[3])
    \/ \E c \in LockinTried :
          /\ AcceptedLockin(c[1], c[2]) => NoLockinYet
          /\ CommandLockin(c[1], c[2])
    \/ \E h \in DOMAIN handlers : \E ok \in BOOLEAN : LtHandlerStep(h, ok)
    \/ \E i \in DOMAIN ltTasks : \E ok \in BOOLEAN : LtTimerStep(i, ok)
    \/ \E h \in DOMAIN handlers : LockinHandlerStep(h) \/ ClearHandlerStep(h)
    \/ \E i \in DOMAIN lockTasks : LockTimerStep(i)

\* one overlay client connects and disconnects
OneClient == ClientConnect("w1") \/ ClientDisconnect("w1")

\* the timer commands with at most one timer of each kind, and one overlay
\* client
SpecCommands == Init /\ [][CommandsNext \/ OneClient]_vars

NoPending(tasks) == \A i \in DOMAIN tasks : ~Pending(tasks[i])

\* the handler appended by this step is suspended in the first send of a
\* broadcast of the stop message to the clients registered now
BeginsOneStopBroadcast ==
    /\ Len(handlers') = Len(handlers) + 1
    /\ SubSeq(handlers', 1, Len(handlers)) = handlers
    /\ LET hd == handlers'[Len(handlers')] IN
       /\ hd.pc = "bcast"
       /\ hd.bc.msg = Msg("stop", 0, "", FALSE)
       /\ hd.bc.snap = overlay_clients
       /\ hd.bc.visited = {}
       /\ hd.bc.cur \in overlay_clients

\* C31: "!ltlockin clear" calls overlay_broadcast once, with the stop
\* message (with clients registered one broadcast of stop begins, with none
\* the call returns at once), whether or not a lock-in timer is pending;
\* "!lt clear" begins no broadcast; neither creates a timer, and with no
\* pending timer of its kind neither changes any timer
ClearBroadcastsStopOnlyForLockin ==
    /\ [][CommandLockin(TRUE, <<"clear">>) =>
            /\ IF overlay_clients = {} THEN handlers' = handlers
               ELSE BeginsOneStopBroadcast
            /\ UNCHANGED <<overlay_clients, ltTasks, lt_task, ltlock_task>>
            /\ Len(lockTasks') = Len(lockTasks)
            /\ NoPending(lockTasks) => lockTasks' = lockTasks]_vars
    /\ [][(\E minutes \in MinuteArgs : CommandLt(TRUE, "clear", minutes)) =>
            /\ UNCHANGED <<handlers, overlay_clients, lockTasks, ltlock_task,
                           lt_task>>
            /\ Len(ltTasks') = Len(ltTasks)
            /\ NoPending(ltTasks) => ltTasks' = ltTasks]_vars

\* a "!ltlockin clear" issued after the only lock-in timer expired is
\* suspended in its stop broadcast
ClearAfterExpiryBroadcasts ==
    /\ lockTasks # <<>>
    /\ NoPending(lockTasks)
    /\ \A i \in DOMAIN lockTasks : ~lockTasks[i].cancel
    /\ \E h \in DOMAIN handlers :
          handlers[h].cmd = "clear" /\ handlers[h].bc.msg = StopMsg

\* ------------------------------------------- cancelling finished tasks
\* no timer command has left a trace: none was accepted, and none is the
\* last one rejected or has broadcast; the monitor has not polled yet
NoTimerYet ==
    /\ NoLtYet /\ NoLockinYet /\ handlers = <<>>
    /\ ~issued.rejected /\ issued.shown = "none"
MonitorNotStarted == hist.iter = 0

\* the probe results of one session that is live at the first poll, and of
\* one more poll after its end
OneSession == <<TRUE, FALSE, FALSE>>

\* the probe answers without error what OneSession says
OneSessionProbe ==
    /\ scen.polls < Len(OneSession)
    /\ \E resp \in StreamResponses :
          /\ ~is_stream_live_raises(resp)
          /\ is_stream_live(resp) = OneSession[scen.polls + 1]
          /\ MonitorProbe(resp)
    /\ scen' = [scen EXCEPT !.polls = @ + 1]

\* the awaits of the monitor answer; the category request of the cleanup
\* fails, or names a category (one answer ends get_current_category) that
\* is not the one recordings are deleted for
OneSessionStep ==
    \/ \E resp \in StreamResponses : MonitorMetadata(resp)
    \/ \E ok \in BOOLEAN : MonitorRecap(ok)
    \/ \E resp \in StreamResponses :
          /\ CategoryAttempt(resp) \in {Raise, OtherCategory}
          /\ MonitorCategory(resp)

\* runs of two sorts: the timer commands and nothing of the stream
\* lifecycle, or that one session with its ad loop and its poller and no
\* timer command; one overlay client in both
CancelNext ==
    \/ MonitorNotStarted /\ CommandsNext
    \/ NoTimerYet /\ (\/ RecapSecretSet \/ OneSessionProbe \/ OneSessionStep
                      \/ AdNext \/ PollerNext)
    \/ OneClient

SpecCancel == Init /\ [][CancelNext]_vars

\* the finished tasks of the sequence are the same after the step
FinishedUntouched(tasks, after) ==
    \A i \in DOMAIN tasks : tasks[i].pc = "done" => after[i] = tasks[i]

OneChatter ==
    EventMessage(<<"a", "l">>, FALSE, <<Match("https://", "two-sum", "1")>>)

\* runs of two sorts: the timer commands and nothing of the stream
\* lifecycle, or one session with its ad loop, its poller and the chat
\* message of a chatter and no timer command; one overlay client in both
IsLiveNext ==
    \/ MonitorNotStarted /\ CommandsNext
    \/ NoTimerYet /\ (\/ RecapSecretSet \/ OneSessionProbe \/ OneSessionStep
                      \/ AdNext \/ PollerNext \/ OneChatter)
    \/ OneClient

SpecIsLive == Init /\ [][IsLiveNext]_vars

\* the monitor leaves the await of its probe for the live-edge branch
\* (metadata logging), or for the offline-edge branch (recap flush, or the
\* cleanup when no recap is configured)
AtProbe == mon.pc \in {"start", "sleep20", "sleep10"}
EntersLiveEdge == AtProbe /\ mon'.pc = "metadata"
EntersOfflineEdge == AtProbe /\ mon'.pc \in {"recap", "category"}

\* C33: is_live changes only in a step of the monitor that enters one of
\* its two edge branches, and each entry of a branch, where the write is,
\* changes the value: false to true on the live edge, true to false on the
\* offline edge; no step of an ad loop, a poller, a timer, a command or the
\* message handler changes it
IsLiveWrittenOnlyAtEdges ==
    /\ [][is_live' # is_live => (EntersLiveEdge \/ EntersOfflineEdge)]_vars
    /\ [][EntersLiveEdge => (~is_live /\ is_live')]_vars
    /\ [][EntersOfflineEdge => (is_live /\ ~is_live')]_vars

\* the session is over: is_live was written twice, and the ad loop, the
\* poller and the message handler have run in between
SessionOverAllRan ==
    /\ ~is_live
    /\ hist.sessions = 1
    /\ hist.offlineDone
    /\ Len(adTasks) = 1 /\ adTasks[1].pc = "done"
    /\ Len(spTasks) = 1 /\ spTasks[1].pc = "done"
    /\ chatter_submissions # <<>>

\* ------------------------------------------- broadcast without clients
\* the messages the program broadcasts
BroadcastMessages ==
    {StopMsg, NowPlaying(TRUE), NowPlaying(FALSE)}
    \cup {Msg("start", m * 60, t, FALSE) : m \in {25}, t \in LockinTargets}

\* C34: with no client registered overlay_broadcast returns at its call,
\* without an await and without an error, leaving the client set empty; a
\* caller goes straight on: the "!ltlockin clear" handler returns, the start
\* handler returns (with its timer created, unless its chat send failed) and
\* the expired timer awaits its announcement; no send to a client is begun
BroadcastWithoutClientsIsNoOp ==
    /\ [](overlay_clients = {} =>
            \A msg \in BroadcastMessages :
                BcStart(msg) = {[kind |-> "return", bc |-> NoBc,
                                 clients |-> {}]})
    /\ [][(overlay_clients = {} /\ CommandLockin(TRUE, <<"clear">>)) =>
             (handlers' = handlers /\ overlay_clients' = {})]_vars
    /\ [][\A i \in DOMAIN lockTasks :
             (/\ overlay_clients = {}
              /\ Running(lockTasks[i])
              /\ lockTasks[i].pc = "sleep"
              /\ lockTasks'[i].pc # "sleep") =>
                 /\ lockTasks'[i].pc = "send"
                 /\ lockTasks'[i].bc = NoBc
                 /\ overlay_clients' = {}]_vars
    /\ [][\A h \in DOMAIN handlers :
             (/\ overlay_clients = {}
              /\ handlers[h].cmd = "lockin"
              /\ handlers[h].pc = "send"
              /\ LockinHandlerStep(h)) =>
                 /\ handlers' = Without(handlers, h)
                 /\ overlay_clients' = {}]_vars

\* no client has ever connected, and a lock-in timer that expired has made
\* its stop broadcast and awaits its announcement
StopBroadcastWithoutClients ==
    /\ ws["w1"] = "new"
    /\ overlay_clients = {}
    /\ \E i \in DOMAIN lockTasks :
          /\ lockTasks[i].pc = "send"
          /\ lockTasks[i].stops = 1
          /\ lockTasks[i].bc = NoBc

\* C35: a broadcast suspended in a send is not aborted when the client set
\* changes meanwhile: resumed, it raises no error to its caller, and when it
\* returns every client that was registered at its start and still is has
\* been sent the message
BroadcastSurvivesSetChanges ==
    \A bc \in BroadcastsInFlight : \A ok \in BOOLEAN :
        \A r \in BcResume(bc, ok) :
            /\ r.kind # Raise
            /\ r.kind = "return" =>
                  (bc.snap \cap overlay_clients) \subseteq
                      (bc.visited \cup {bc.cur})

\* C36: the cleanup goes on to list and delete a recording only from an
\* answer of the stream-status endpoint that names a stream (one that
\* is_stream_live reads as live) whose category is "Fitness & Health",
\* given within its 5 attempts; after answers that name no stream it never
\* does, so a cleanup whose attempts all saw no stream deletes nothing
DeleteNeedsStreamEntry ==
    /\ [](/\ dlv.gets <= 5
          /\ (mon.pc \in {"vodlist", "voddelete"} \/ dlv.deletes > 0) =>
                (dlv.seen /\ dlv.category = "Fitness & Health")
          /\ ~dlv.seen => dlv.deletes = 0)
    /\ [][\A resp \in StreamResponses :
             (MonitorCategory(resp) /\ mon'.pc = "vodlist") =>
                 /\ ~is_stream_live_raises(resp)
                 /\ is_stream_live(resp)
                 /\ resp.data[1].game_name = "Fitness & Health"]_vars

\* the offline edge is over: all 5 attempts of the cleanup were answered
\* with no stream, and no recording was listed or deleted
CleanupSawNoStream ==
    /\ hist.offlineDone
    /\ dlv.status = "returned"
    /\ dlv.gets = 5
    /\ ~dlv.seen
    /\ dlv.list = NoResponse
    /\ dlv.deletes = 0

\* C37: at every await the ad_task and spotify_task handles are both set or
\* both unset, and no step changes one of them without the other: they are
\* assigned together after metadata logging and cleared together after the
\* cleanup, and a step in which metadata logging, the recap flush or the
\* cleanup raises changes neither
HandlesSetTogether ==
    /\ []((ad_task = 0) <=> (spotify_task = 0))
    /\ [][(ad_task' # ad_task) <=> (spotify_task' # spotify_task)]_vars
    /\ [][(mon.pc \in {"metadata", "recap", "category", "vodlist",
                       "voddelete"} /\ mon'.pc = "sleep10") =>
             UNCHANGED <<ad_task, spotify_task>>]_vars

\* the cleanup raised at the offline edge: the monitor backs off with
\* is_live false and both handles of the ended session still set
BothHandlesKeptAfterRaise ==
    /\ mon.pc = "sleep10"
    /\ dlv.status = "raised"
    /\ ~is_live
    /\ ad_task # 0
    /\ spotify_task # 0

\* C38: once a "!ltlockin clear" has completed, no lock-in timer of a
\* command that was dispatched before it, and was still suspended when it
\* was processed, is running
ClearPreventsSuspendedStart ==
    InFlight("clear") = {} =>
        \A i \in DOMAIN lockTasks :
            ~(Running(lockTasks[i]) /\ lockTasks[i].cleared)

\* the event loop resumes every command handler and every timer whose
\* await has completed; commands and overlay clients come as they please
SpecLockinFair ==
    /\ SpecLockin
    /\ WF_vars(\E h \in DOMAIN handlers :
                  LockinHandlerStep(h) \/ ClearHandlerStep(h))
    /\ WF_vars(\E i \in DOMAIN lockTasks : LockTimerStep(i))

\* C39: whenever the last lock-in message given to the overlay is a start,
\* a stop broadcast is made later
StartLeadsToStop ==
    (issued.shown = "start") ~> (issued.shown = "stop")

\* ------------------------------------------------------ rejected commands
\* the caller is not privileged, or the command is not a clear and lacks an
\* argument or gives a duration outside 1..180 minutes
RejectedLt(privileged, url, minutes) ==
    \/ ~privileged
    \/ url # "clear" /\ (url = NoneVal \/ minutes < 1 \/ minutes > 180)
RejectedLockin(privileged, args) ==
    \/ ~privileged
    \/ args # <<"clear">>
       /\ (Len(args) < 2 \/ (Len(args) = 2 /\ (args[2] < 1 \/ args[2] > 180)))

\* what a rejected command must leave alone: the timer tasks and their
\* handles, the handlers suspended in a chat send or in a broadcast, the
\* overlay clients, current_problem and the problems of the recap
TimerState ==
    <<ltTasks, lt_task, lockTasks, ltlock_task, handlers, overlay_clients,
      current_problem, stream_problems>>

\* C40: a "!lt" or "!ltlockin" command that is rejected creates and cancels
\* no timer, begins no chat send and no broadcast, and leaves
\* current_problem and the recap problem list as they were
RejectedCommandChangesNothing ==
    /\ [][\A c \in LtTried :
             (RejectedLt(c[1], c[2], c[3]) /\ CommandLt(c[1], c[2], c[3]))
                 => UNCHANGED TimerState]_vars
    /\ [][\A c \in LockinTried :
             (RejectedLockin(c[1], c[2]) /\ CommandLockin(c[1], c[2]))
                 => UNCHANGED TimerState]_vars

\* the last command was rejected while a timer of each kind was running, a
\* client was connected and a problem was set
RejectedWhileTimersRun ==
    /\ issued.rejected
    /\ handlers = <<>>
    /\ \E i \in DOMAIN ltTasks : Running(ltTasks[i])
    /\ \E i \in DOMAIN lockTasks : Running(lockTasks[i])
    /\ overlay_clients # {}
    /\ current_problem # NoneVal
    /\ stream_problems # <<>>

====
